---- MODULE Spec2Model ----
(***************************************************************************)
(* A state-machine model of keystore/key_store_service.cpp: the blob       *)
(* lifecycle (generateKey, importKey, del, upgradeKeyBlob), the user lock   *)
(* state, and the operation lifecycle (begin, update, finish, abort,        *)
(* pruneOperation, binderDied).  Every binder entry point is one atomic     *)
(* action; the collaborators that the service calls (keymaster devices,     *)
(* permission oracle, enforcement policy, blob store failures) answer       *)
(* nondeterministically from the sets of the environment record E.          *)
(***************************************************************************)
EXTENDS Integers, Sequences, FiniteSets, TLC

(* ------------------------------------------------------------------ *)
(* Program constants                                                  *)
(* ------------------------------------------------------------------ *)
kMaxOperations == 15
AID_SYSTEM == 1000
USER_ID_STRIDE == 100000
UID_SELF == -1

(* ------------------------------------------------------------------ *)
(* Bounds of the model                                                *)
(* ------------------------------------------------------------------ *)
\* operation tokens handed out in the operation specification
MaxOps == 2
\* operation tokens handed out in the specification of begin in every user state
MaxLockOps == 1
\* operation tokens handed out in the operation-pool specification
MaxTokens == 17
\* operation tokens handed out in the specification of the worker threads
MaxThreadOps == 2
\* keymaster calls on one handle after which no thread enters update on it
MaxCalls == 3
\* operation tokens handed out in the specification of all entry points
MaxEntryOps == 1

AppUid == AID_SYSTEM + 9001
Uids == {AID_SYSTEM, AppUid}
Aliases == {"k"}
Keys == Uids \X Aliases

get_app_id(uid) == uid % USER_ID_STRIDE

KeyParamSets == {{"NO_AUTH_REQUIRED"}, {}}
RestrictedTags == {"ATTESTATION_APPLICATION_ID", "AUTH_TOKEN", "RESET_SINCE_ID_ROTATION"}
FlagSets == SUBSET {"ENCRYPTED", "CRITICAL"}

VARIABLES
    userState,   \* mKeyStore->getState(user 0)
    blobs,       \* <uid, alias> -> the key file (TYPE_KEYMASTER_10)
    chars,       \* <uid, alias> -> the characteristics file
    ops,         \* mOperationMap, in the order of addOperation
    nextToken,   \* the next operation token / keymaster handle
    authTable,   \* mAuthTokenTable: the challenges of the stored tokens
    lastCall,    \* the entry point that ran last, its result, its calls out
    cancelled,   \* <<handle, entry point>>: the entry point whose dev->abort ended handle
    workers,     \* worker thread -> the call it is in the middle of
    kmCalls,     \* operation handle -> the keymaster calls dispatched for it, in order
    grants,      \* mKeyStore's grants: <<owner uid, alias, grantee uid>>
    outerCall    \* the entry point that made lastCall's call itself, and its result

vars == <<userState, blobs, chars, ops, nextToken, authTable, lastCall,
          cancelled, workers, kmCalls, grants, outerCall>>

\* what the entry points that run to completion on one thread leave alone
threadVars == <<workers, kmCalls>>

\* what only grant, ungrant, clear_uid and the entry points that call another
\* entry point change
legacyVars == <<grants, outerCall>>

\* what the entry points on keymaster keys and on the user state leave alone
auxVars == <<cancelled, workers, kmCalls, grants, outerCall>>

\* no entry point has called another one
NoOuter == [op |-> "", rc |-> "", pc |-> "", tok |-> 0, uid |-> 0, name |-> "", size |-> 0]

\* the worker threads of the service
Workers == {1, 2}

Idle == [pc |-> "idle", kind |-> "", tok |-> 0, handle |-> 0, todo |-> <<>>]

NoBlob == [present |-> FALSE, enc |-> FALSE, super |-> FALSE, fallback |-> FALSE,
           critical |-> FALSE, params |-> {}, byFallback |-> FALSE,
           upgraded |-> FALSE, info |-> 0, type |-> ""]
NoChar == [present |-> FALSE, enc |-> FALSE, fallback |-> FALSE, params |-> {}]
NoKey == <<0, "">>

\* aborted: the operation handles passed to dev->abort during the call;
\* authTok: update or finish added an auth token to the parameters it passed
\* to the keymaster; softwareEnforced, teeEnforced: the characteristics
\* getKeyCharacteristics returned; exportData: exportKey has set the key
\* material of its result; clientId, appData: the byte strings
\* getOperationCharacteristics passed to the keymaster
CallA(op, rc, key, tok, trace, aborted) ==
    [op |-> op, rc |-> rc, key |-> key, tok |-> tok, trace |-> trace, aborted |-> aborted,
     authTok |-> FALSE, softwareEnforced |-> {}, teeEnforced |-> {}, exportData |-> FALSE,
     clientId |-> <<>>, appData |-> <<>>]

\* a call of update or finish that passed opParams to the keymaster, with
\* the auth token addAuthTokenToParams added (lines 1171-1175)
CallT(op, rc, key, tok, trace, authTok) ==
    [CallA(op, rc, key, tok, trace, <<>>) EXCEPT !.authTok = authTok]

Call(op, rc, key, tok, trace) == CallA(op, rc, key, tok, trace, <<>>)

\* a call of getKeyCharacteristics that has set outCharacteristics
CallC(rc, key, trace, softwareEnforced, teeEnforced) ==
    [Call("getKeyCharacteristics", rc, key, 0, trace)
        EXCEPT !.softwareEnforced = softwareEnforced, !.teeEnforced = teeEnforced]

\* a call of exportKey; exportData: hidlCb was called with ErrorCode::OK and
\* has set result->exportData (lines 1133-1139)
CallE(rc, key, trace, exportData) ==
    [Call("exportKey", rc, key, 0, trace) EXCEPT !.exportData = exportData]

isOk(rc) == rc = "NO_ERROR"

\* a keymaster answer as a KeyStoreServiceReturnCode
KmCode(a) ==
    CASE a = "OK" -> "NO_ERROR"
      [] a = "HIDL" -> "SYSTEM_ERROR"
      [] a = "ERR" -> "UNKNOWN_ERROR"
      [] OTHER -> a

containsTag(params, tag) == tag \in params

isAuthenticationBound(params) == ~containsTag(params, "NO_AUTH_REQUIRED")

getEffectiveUid(callingUid, targetUid) ==
    IF targetUid = UID_SELF THEN callingUid ELSE targetUid

isKeystoreUnlocked(state) == state = "NO_ERROR"

\* the permission check alone, whatever the state of the user
checkBinderPermissionAndKeystoreState_permissionOnly(perm, checkUnlocked) ==
    IF ~perm THEN "PERMISSION_DENIED" ELSE "NO_ERROR"

\* perm: has_permission(callingUid, permission) /\ is_granted_to(callingUid, target)
checkBinderPermissionAndKeystoreState(perm, checkUnlocked) ==
    IF ~perm THEN "PERMISSION_DENIED"
    ELSE IF checkUnlocked /\ ~isKeystoreUnlocked(userState) THEN userState
    ELSE "NO_ERROR"

(* ------------------------------------------------------------------ *)
(* BlobStore                                                          *)
(* ------------------------------------------------------------------ *)
\* mKeyStore->getKeyForName(&blob, name, uid, TYPE_KEYMASTER_10): the code and
\* the blob as far as it was read (its flags are read before decryption)
getKeyForName(b, st, key) ==
    IF ~b[key].present \/ b[key].type # "KEYMASTER_10"
    THEN [rc |-> "KEY_NOT_FOUND", blob |-> NoBlob]
    ELSE IF (b[key].enc \/ b[key].super) /\ st # "NO_ERROR"
         THEN [rc |-> st, blob |-> b[key]]
    ELSE [rc |-> "NO_ERROR", blob |-> b[key]]

getCharsForName(c, st, key) ==
    IF ~c[key].present THEN [rc |-> "KEY_NOT_FOUND", blob |-> NoChar]
    ELSE IF c[key].enc /\ st # "NO_ERROR" THEN [rc |-> st, blob |-> c[key]]
    ELSE [rc |-> "NO_ERROR", blob |-> c[key]]

\* resetUser(userId, keepUnencryptedEntries = TRUE) on the key files
resetKeepBlob(bl) == bl.critical \/ (~bl.enc /\ ~bl.super)

resetUserBlobs(b, keepCore) ==
    [k \in Keys |-> IF keepCore /\ b[k].present /\ resetKeepBlob(b[k]) THEN b[k] ELSE NoBlob]

resetUserChars(b, c, keepCore) ==
    [k \in Keys |->
        IF keepCore /\ c[k].present
           /\ (IF b[k].present THEN resetKeepBlob(b[k]) ELSE ~c[k].enc)
        THEN c[k] ELSE NoChar]

(* ------------------------------------------------------------------ *)
(* Frames                                                             *)
(* ------------------------------------------------------------------ *)
Return(call) ==
    /\ lastCall' = call
    /\ UNCHANGED <<userState, blobs, chars, ops, nextToken, authTable>>

ReturnBlobs(b, c, call) ==
    /\ blobs' = b
    /\ chars' = c
    /\ lastCall' = call
    /\ UNCHANGED <<userState, ops, nextToken, authTable>>

(* ------------------------------------------------------------------ *)
(* generateKey / importKey                                            *)
(* ------------------------------------------------------------------ *)
generateKey_hidl_cb_superIfAuthBound(b, key, ret, usingFallback, params, flags, putOk) ==
    IF ret # "OK" THEN [error |-> KmCode(ret), blobs |-> b, trace |-> <<>>]
    ELSE IF ~putOk THEN [error |-> "SYSTEM_ERROR", blobs |-> b, trace |-> <<"put">>]
    ELSE [error |-> "NO_ERROR",
          blobs |-> [b EXCEPT ![key] = [present |-> TRUE,
                                        enc |-> "ENCRYPTED" \in flags,
                                        super |-> isAuthenticationBound(params),
                                        fallback |-> usingFallback,
                                        critical |-> "CRITICAL" \in flags,
                                        params |-> params,
                                        byFallback |-> usingFallback, upgraded |-> FALSE, info |-> 0,
                                        type |-> "KEYMASTER_10"]],
          trace |-> <<"put">>]

\* the blob is marked as made by the primary device whoever made it
generateKey_hidl_cb_primaryFlag(b, key, ret, usingFallback, params, flags, putOk) ==
    IF ret # "OK" THEN [error |-> KmCode(ret), blobs |-> b, trace |-> <<>>]
    ELSE IF ~putOk THEN [error |-> "SYSTEM_ERROR", blobs |-> b, trace |-> <<"put">>]
    ELSE [error |-> "NO_ERROR",
          blobs |-> [b EXCEPT ![key] = [present |-> TRUE,
                                        enc |-> "ENCRYPTED" \in flags,
                                        super |-> isAuthenticationBound(params)
                                                  /\ "CRITICAL" \notin flags,
                                        fallback |-> FALSE,
                                        critical |-> "CRITICAL" \in flags,
                                        params |-> params,
                                        byFallback |-> usingFallback, upgraded |-> FALSE, info |-> 0,
                                        type |-> "KEYMASTER_10"]],
          trace |-> <<"put">>]

\* the hidl_cb lambda of generateKey: ret is the device's answer, putOk the
\* outcome of mKeyStore->put
generateKey_hidl_cb(b, key, ret, usingFallback, params, flags, putOk) ==
    IF ret # "OK" THEN [error |-> KmCode(ret), blobs |-> b, trace |-> <<>>]
    ELSE
        LET critical == "CRITICAL" \in flags
            keyBlob == [present |-> TRUE,
                        enc |-> "ENCRYPTED" \in flags,
                        super |-> isAuthenticationBound(params) /\ ~critical,
                        fallback |-> usingFallback,
                        critical |-> critical,
                        params |-> params,
                        byFallback |-> usingFallback, upgraded |-> FALSE, info |-> 0,
                        type |-> "KEYMASTER_10"]
        IN  IF putOk
            THEN [error |-> "NO_ERROR", blobs |-> [b EXCEPT ![key] = keyBlob],
                  trace |-> <<"put">>]
            ELSE [error |-> "SYSTEM_ERROR", blobs |-> b, trace |-> <<"put">>]

generateKey_charBlob_plain(params, flags, usingFallback) ==
    [present |-> TRUE, enc |-> FALSE, fallback |-> FALSE, params |-> params]

\* the characteristics file written at the end of generateKey
generateKey_charBlob(params, flags, usingFallback) ==
    [present |-> TRUE, enc |-> "ENCRYPTED" \in flags, fallback |-> usingFallback,
     params |-> params]

\* generateKey from the device call on (lines 859-901)
generateKey_device(key, params, flags, pre, E) ==
    \E g1 \in E.km :
      IF g1 = "HIDL"
      THEN Return(Call("generateKey", KmCode(g1), key, 0, pre \o <<"generateKey">>))
      ELSE \E p1 \in (IF g1 = "OK" THEN E.put ELSE {TRUE}) :
        LET r1 == generateKey_hidl_cb(blobs, key, g1, FALSE, params, flags, p1)
            t1 == pre \o <<"generateKey">> \o r1.trace
        IN
        IF ~isOk(r1.error)
        THEN \E fb \in E.fallback :
          IF ~fb THEN Return(Call("generateKey", r1.error, key, 0, t1))
          ELSE \E g2 \in E.fbkm :
            IF g2 = "HIDL"
            THEN Return(Call("generateKey", KmCode(g2), key, 0,
                             t1 \o <<"fb.generateKey">>))
            ELSE \E p2 \in (IF g2 = "OK" THEN E.put ELSE {TRUE}) :
              LET r2 == generateKey_hidl_cb(blobs, key, g2, TRUE, params, flags, p2)
                  t2 == t1 \o <<"fb.generateKey">> \o r2.trace
              IN
              IF ~isOk(r2.error)
              THEN ReturnBlobs(r2.blobs, chars, Call("generateKey", r2.error, key, 0, t2))
              ELSE \E pc \in E.put :
                ReturnBlobs(r2.blobs,
                    IF pc THEN [chars EXCEPT ![key] = generateKey_charBlob(params, flags, TRUE)]
                    ELSE chars,
                    Call("generateKey", IF pc THEN "NO_ERROR" ELSE "SYSTEM_ERROR", key, 0,
                         t2 \o <<"put">>))
        ELSE \E pc \in E.put :
          ReturnBlobs(r1.blobs,
              IF pc THEN [chars EXCEPT ![key] = generateKey_charBlob(params, flags, FALSE)]
              ELSE chars,
              Call("generateKey", IF pc THEN "NO_ERROR" ELSE "SYSTEM_ERROR", key, 0,
                   t1 \o <<"put">>))

GenerateKey(callingUid, targetUid, name, params, flags, E) ==
    LET uid == getEffectiveUid(callingUid, targetUid)
        key == <<uid, name>>
    IN
    \E perm \in E.perm :
      LET rc == checkBinderPermissionAndKeystoreState(perm, "ENCRYPTED" \in flags) IN
      IF ~isOk(rc) THEN Return(Call("generateKey", rc, key, 0, <<>>))
      ELSE IF "CRITICAL" \in flags /\ get_app_id(uid) # AID_SYSTEM
      THEN Return(Call("generateKey", "PERMISSION_DENIED", key, 0, <<>>))
      ELSE \E uniq \in (IF containsTag(params, "INCLUDE_UNIQUE_ID") THEN E.uniq ELSE {TRUE}) :
        IF ~uniq THEN Return(Call("generateKey", "PERMISSION_DENIED", key, 0, <<>>))
        ELSE \E ent \in E.rng :
          IF ent # "OK"
          THEN Return(Call("generateKey", KmCode(ent), key, 0, <<"addRngEntropy">>))
          ELSE generateKey_device(key, params, flags, <<"addRngEntropy">>, E)

\* the hidlCb lambda of importKey
importKey_hidlCb(b, key, ret, usingFallback, params, flags, putOk) ==
    IF ret # "OK" THEN [error |-> KmCode(ret), blobs |-> b, trace |-> <<>>]
    ELSE
        LET critical == "CRITICAL" \in flags
            ksBlob == [present |-> TRUE,
                       enc |-> "ENCRYPTED" \in flags,
                       super |-> isAuthenticationBound(params) /\ ~critical,
                       fallback |-> usingFallback,
                       critical |-> critical,
                       params |-> params,
                       byFallback |-> usingFallback, upgraded |-> FALSE, info |-> 0,
                       type |-> "KEYMASTER_10"]
        IN  IF putOk
            THEN [error |-> "NO_ERROR", blobs |-> [b EXCEPT ![key] = ksBlob],
                  trace |-> <<"put">>]
            ELSE [error |-> "SYSTEM_ERROR", blobs |-> b, trace |-> <<"put">>]

\* the characteristics file written at the end of importKey
importKey_charBlob(params, flags, usingFallback) ==
    [present |-> TRUE, enc |-> "ENCRYPTED" \in flags, fallback |-> usingFallback,
     params |-> params]

\* importKey from the device call on (lines 1055-1105)
importKey_device(key, params, flags, E) ==
    \E g1 \in E.km :
      IF g1 = "HIDL"
      THEN Return(Call("importKey", KmCode(g1), key, 0, <<"importKey">>))
      ELSE \E p1 \in (IF g1 = "OK" THEN E.put ELSE {TRUE}) :
        LET r1 == importKey_hidlCb(blobs, key, g1, FALSE, params, flags, p1)
            t1 == <<"importKey">> \o r1.trace
        IN
        IF ~isOk(r1.error)
        THEN \E fb \in E.fallback :
          IF ~fb THEN Return(Call("importKey", r1.error, key, 0, t1))
          ELSE \E g2 \in E.fbkm :
            IF g2 = "HIDL"
            THEN Return(Call("importKey", KmCode(g2), key, 0, t1 \o <<"fb.importKey">>))
            ELSE \E p2 \in (IF g2 = "OK" THEN E.put ELSE {TRUE}) :
              LET r2 == importKey_hidlCb(blobs, key, g2, TRUE, params, flags, p2)
                  t2 == t1 \o <<"fb.importKey">> \o r2.trace
              IN
              IF ~isOk(r2.error)
              THEN ReturnBlobs(r2.blobs, chars, Call("importKey", r2.error, key, 0, t2))
              ELSE \E pc \in E.put :
                ReturnBlobs(r2.blobs,
                    IF pc THEN [chars EXCEPT ![key] = importKey_charBlob(params, flags, TRUE)]
                    ELSE chars,
                    Call("importKey", IF pc THEN "NO_ERROR" ELSE "SYSTEM_ERROR", key, 0,
                         t2 \o <<"put">>))
        ELSE \E pc \in E.put :
          ReturnBlobs(r1.blobs,
              IF pc THEN [chars EXCEPT ![key] = importKey_charBlob(params, flags, FALSE)]
              ELSE chars,
              Call("importKey", IF pc THEN "NO_ERROR" ELSE "SYSTEM_ERROR", key, 0,
                   t1 \o <<"put">>))

ImportKey(callingUid, targetUid, name, params, flags, E) ==
    LET uid == getEffectiveUid(callingUid, targetUid)
        key == <<uid, name>>
    IN
    \E perm \in E.perm :
      LET rc == checkBinderPermissionAndKeystoreState(perm, "ENCRYPTED" \in flags) IN
      IF ~isOk(rc) THEN Return(Call("importKey", rc, key, 0, <<>>))
      ELSE IF "CRITICAL" \in flags /\ get_app_id(uid) # AID_SYSTEM
      THEN Return(Call("importKey", "PERMISSION_DENIED", key, 0, <<>>))
      ELSE importKey_device(key, params, flags, E)

(* ------------------------------------------------------------------ *)
(* del                                                                *)
(* ------------------------------------------------------------------ *)
Del_keyBlobOnly(callingUid, targetUid, name, E) ==
    \E perm \in E.perm, d1 \in E.del :
      IF ~perm
      THEN Return(Call("del", "PERMISSION_DENIED", <<getEffectiveUid(callingUid, targetUid), name>>,
                       0, <<>>))
      ELSE IF ~blobs[<<getEffectiveUid(callingUid, targetUid), name>>].present
      THEN Return(Call("del", "KEY_NOT_FOUND", <<getEffectiveUid(callingUid, targetUid), name>>,
                       0, <<>>))
      ELSE ReturnBlobs(IF d1 THEN [blobs EXCEPT ![<<getEffectiveUid(callingUid, targetUid), name>>] = NoBlob]
                       ELSE blobs,
                       chars,
                       Call("del", IF d1 THEN "NO_ERROR" ELSE "SYSTEM_ERROR",
                            <<getEffectiveUid(callingUid, targetUid), name>>, 0, <<"del">>))

Del(callingUid, targetUid, name, E) ==
    LET uid == getEffectiveUid(callingUid, targetUid)
        key == <<uid, name>>
    IN
    \E perm \in E.perm :
      IF ~perm THEN Return(Call("del", "PERMISSION_DENIED", key, 0, <<>>))
      ELSE IF ~blobs[key].present
      THEN Return(Call("del", "KEY_NOT_FOUND", key, 0, <<>>))
      ELSE \E d1 \in E.del :
        IF ~d1 THEN Return(Call("del", "SYSTEM_ERROR", key, 0, <<"del">>))
        ELSE IF chars[key].present
        THEN \E d2 \in E.del :
          ReturnBlobs([blobs EXCEPT ![key] = NoBlob],
                      IF d2 THEN [chars EXCEPT ![key] = NoChar] ELSE chars,
                      Call("del", IF d2 THEN "NO_ERROR" ELSE "SYSTEM_ERROR", key, 0,
                           <<"del", "del">>))
        ELSE ReturnBlobs([blobs EXCEPT ![key] = NoBlob], chars,
                         Call("del", "NO_ERROR", key, 0, <<"del">>))

(* ------------------------------------------------------------------ *)
(* user state                                                         *)
(* ------------------------------------------------------------------ *)
ReturnUser(st, b, c, a, call) ==
    /\ userState' = st
    /\ blobs' = b
    /\ chars' = c
    /\ authTable' = a
    /\ lastCall' = call
    /\ UNCHANGED <<ops, nextToken>>

OnUserPasswordChanged_noResetWhenLocked(emptyPassword, E) ==
    \E perm \in E.perm :
      IF ~perm THEN Return(Call("onUserPasswordChanged", "PERMISSION_DENIED", NoKey, 0, <<>>))
      ELSE IF emptyPassword
      THEN ReturnUser("UNINITIALIZED", resetUserBlobs(blobs, TRUE),
                      resetUserChars(blobs, chars, TRUE), {},
                      Call("onUserPasswordChanged", "NO_ERROR", NoKey, 0, <<"resetUser">>))
      ELSE IF userState = "NO_ERROR"
      THEN ReturnUser("NO_ERROR", blobs, chars, {},
                      Call("onUserPasswordChanged", "NO_ERROR", NoKey, 0, <<"writeMasterKey">>))
      ELSE ReturnUser("NO_ERROR", blobs, chars, {},
                      Call("onUserPasswordChanged", "NO_ERROR", NoKey, 0, <<"initializeUser">>))

OnUserPasswordChanged(emptyPassword, E) ==
    \E perm \in E.perm :
      IF ~perm THEN Return(Call("onUserPasswordChanged", "PERMISSION_DENIED", NoKey, 0, <<>>))
      ELSE IF emptyPassword
      THEN ReturnUser("UNINITIALIZED", resetUserBlobs(blobs, TRUE),
                      resetUserChars(blobs, chars, TRUE), {},
                      Call("onUserPasswordChanged", "NO_ERROR", NoKey, 0, <<"resetUser">>))
      ELSE CASE userState = "UNINITIALIZED" ->
                  ReturnUser("NO_ERROR", blobs, chars, {},
                      Call("onUserPasswordChanged", "NO_ERROR", NoKey, 0, <<"initializeUser">>))
             [] userState = "NO_ERROR" ->
                  ReturnUser("NO_ERROR", blobs, chars, {},
                      Call("onUserPasswordChanged", "NO_ERROR", NoKey, 0, <<"writeMasterKey">>))
             [] userState = "LOCKED" ->
                  ReturnUser("NO_ERROR", resetUserBlobs(blobs, TRUE),
                      resetUserChars(blobs, chars, TRUE), {},
                      Call("onUserPasswordChanged", "NO_ERROR", NoKey, 0,
                           <<"resetUser", "initializeUser">>))

Lock_fromAnyState(E) ==
    \E perm \in E.perm :
      IF ~perm THEN Return(Call("lock", "PERMISSION_DENIED", NoKey, 0, <<>>))
      ELSE ReturnUser("LOCKED", blobs, chars, authTable,
                      Call("lock", "NO_ERROR", NoKey, 0, <<"lock">>))

\* lock aborts the operations of the user it locks
Lock_dropsOperations(E) ==
    \E perm \in E.perm :
      IF ~perm THEN Return(Call("lock", "PERMISSION_DENIED", NoKey, 0, <<>>))
      ELSE IF userState # "NO_ERROR" THEN Return(Call("lock", userState, NoKey, 0, <<>>))
      ELSE /\ userState' = "LOCKED"
           /\ ops' = <<>>
           /\ lastCall' = Call("lock", "NO_ERROR", NoKey, 0, <<"lock">>)
           /\ UNCHANGED <<blobs, chars, nextToken, authTable>>

Lock(E) ==
    \E perm \in E.perm :
      IF ~perm THEN Return(Call("lock", "PERMISSION_DENIED", NoKey, 0, <<>>))
      ELSE IF userState # "NO_ERROR" THEN Return(Call("lock", userState, NoKey, 0, <<>>))
      ELSE ReturnUser("LOCKED", blobs, chars, authTable,
                      Call("lock", "NO_ERROR", NoKey, 0, <<"lock">>))

Unlock(pwOk, E) ==
    \E perm \in E.perm :
      IF ~perm THEN Return(Call("unlock", "PERMISSION_DENIED", NoKey, 0, <<>>))
      ELSE IF userState # "LOCKED" THEN Return(Call("unlock", userState, NoKey, 0, <<>>))
      ELSE ReturnUser(IF pwOk THEN "NO_ERROR" ELSE "LOCKED", blobs, chars, authTable,
                      Call("unlock", IF pwOk THEN "NO_ERROR" ELSE "WRONG_PASSWORD", NoKey, 0,
                           <<"readMasterKey">>))

(* ------------------------------------------------------------------ *)
(* upgradeKeyBlob                                                     *)
(* ------------------------------------------------------------------ *)
\* the upgraded blob is written without the SuperEncrypted flag
upgradeKeyBlob_notSuperEncrypted(b, st, key, e) ==
    LET r == getKeyForName(b, st, key) IN
    IF r.rc # "NO_ERROR" THEN [rc |-> r.rc, blobs |-> b, trace |-> <<"get">>]
    ELSE IF e.up # "OK"
    THEN [rc |-> KmCode(e.up), blobs |-> b, trace |-> <<"get", "upgradeKey">>]
    ELSE IF ~e.del
    THEN [rc |-> "SYSTEM_ERROR", blobs |-> b, trace |-> <<"get", "upgradeKey", "del">>]
    ELSE IF ~e.put
    THEN [rc |-> "SYSTEM_ERROR", blobs |-> [b EXCEPT ![key] = NoBlob],
          trace |-> <<"get", "upgradeKey", "del", "put">>]
    ELSE [rc |-> "NO_ERROR",
          blobs |-> [b EXCEPT ![key] = [r.blob EXCEPT !.super = FALSE, !.upgraded = TRUE]],
          trace |-> <<"get", "upgradeKey", "del", "put", "get">>]

\* the old file is deleted and the upgraded blob is not written
upgradeKeyBlob_deleteOnly(b, st, key, e) ==
    LET r == getKeyForName(b, st, key) IN
    IF r.rc # "NO_ERROR" THEN [rc |-> r.rc, blobs |-> b, trace |-> <<"get">>]
    ELSE IF e.up # "OK"
    THEN [rc |-> KmCode(e.up), blobs |-> b, trace |-> <<"get", "upgradeKey">>]
    ELSE IF ~e.del
    THEN [rc |-> "SYSTEM_ERROR", blobs |-> b, trace |-> <<"get", "upgradeKey", "del">>]
    ELSE IF ~e.put
    THEN [rc |-> "SYSTEM_ERROR", blobs |-> [b EXCEPT ![key] = NoBlob],
          trace |-> <<"get", "upgradeKey", "del", "put">>]
    ELSE [rc |-> "NO_ERROR", blobs |-> [b EXCEPT ![key] = NoBlob],
          trace |-> <<"get", "upgradeKey", "del", "put", "get">>]

\* e.up: the answer of dev->upgradeKey, e.del / e.put: mKeyStore->del / put
upgradeKeyBlob(b, st, key, e) ==
    LET r == getKeyForName(b, st, key) IN
    IF r.rc # "NO_ERROR" THEN [rc |-> r.rc, blobs |-> b, trace |-> <<"get">>]
    ELSE IF e.up # "OK"
    THEN [rc |-> KmCode(e.up), blobs |-> b, trace |-> <<"get", "upgradeKey">>]
    ELSE IF ~e.del
    THEN [rc |-> "SYSTEM_ERROR", blobs |-> b, trace |-> <<"get", "upgradeKey", "del">>]
    ELSE
        LET newBlob == [present |-> TRUE,
                        enc |-> r.blob.enc,
                        super |-> r.blob.super,
                        fallback |-> r.blob.fallback,
                        critical |-> r.blob.critical,
                        params |-> r.blob.params,
                        byFallback |-> r.blob.fallback, upgraded |-> TRUE,
                        info |-> 0,
                        type |-> r.blob.type]
        IN  IF ~e.put
            THEN [rc |-> "SYSTEM_ERROR", blobs |-> [b EXCEPT ![key] = NoBlob],
                  trace |-> <<"get", "upgradeKey", "del", "put">>]
            ELSE [rc |-> getKeyForName([b EXCEPT ![key] = newBlob], st, key).rc,
                  blobs |-> [b EXCEPT ![key] = newBlob],
                  trace |-> <<"get", "upgradeKey", "del", "put", "get">>]

\* the answers of the collaborators of one upgradeKeyBlob call
UpgradeEnvs(E) == [up : E.km, del : E.del, put : E.put]

(* ------------------------------------------------------------------ *)
(* getKeyCharacteristics                                              *)
(* ------------------------------------------------------------------ *)
\* the characteristics file is read, and what the keymaster blob says is
\* returned as hardware-enforced
getKeyCharacteristics_fromFile_asHardware(c, key) ==
    IF ~isOk(c.rc) THEN Call("getKeyCharacteristics", c.rc, key, 0, <<"get", "get">>)
    ELSE CallC(c.rc, key, <<"get", "get">>, {}, c.blob.params)

\* getKeyCharacteristics, lines 926-948: the master key is missing, the
\* characteristics are read from the characteristics file
getKeyCharacteristics_fromFile(c, key) ==
    IF ~isOk(c.rc) THEN Call("getKeyCharacteristics", c.rc, key, 0, <<"get", "get">>)
    ELSE CallC(c.rc, key, <<"get", "get">>, c.blob.params, {})

\* getKeyCharacteristics, lines 959-966 and 1000: the keymaster answers ret
\* and, if it accepts, with the characteristics it enforces for the blob
getKeyCharacteristics_hidlCb(ret, blob, key, trace) ==
    IF ret # "OK" THEN Call("getKeyCharacteristics", KmCode(ret), key, 0, trace)
    ELSE CallC(KmCode(ret), key, trace, {}, blob.params)

GetKeyCharacteristics(callingUid, targetUid, name, E) ==
    LET targetUid_ == getEffectiveUid(callingUid, targetUid)
        key == <<targetUid_, name>>
        r == getKeyForName(blobs, userState, key)
    IN
    \E granted \in E.perm :
      IF ~granted
      THEN Return(Call("getKeyCharacteristics", "PERMISSION_DENIED", key, 0, <<>>))
      ELSE IF r.rc = "UNINITIALIZED"
      THEN Return(getKeyCharacteristics_fromFile(getCharsForName(chars, userState, key), key))
      ELSE IF ~isOk(r.rc)
      THEN Return(Call("getKeyCharacteristics", r.rc, key, 0, <<"get">>))
      ELSE \E c1 \in E.kmChar :
        IF c1 = "KEY_REQUIRES_UPGRADE"
        THEN \E ue \in UpgradeEnvs(E) :
          LET u == upgradeKeyBlob(blobs, userState, key, ue)
              t == <<"get", "getKeyCharacteristics">> \o u.trace
          IN
          IF ~isOk(u.rc)
          THEN ReturnBlobs(u.blobs, chars, Call("getKeyCharacteristics", u.rc, key, 0, t))
          ELSE \E c2 \in E.kmChar :
            ReturnBlobs(u.blobs, chars,
                        getKeyCharacteristics_hidlCb(c2, u.blobs[key], key,
                                                     t \o <<"getKeyCharacteristics">>))
        ELSE Return(getKeyCharacteristics_hidlCb(c1, r.blob, key,
                                                 <<"get", "getKeyCharacteristics">>))

(* ------------------------------------------------------------------ *)
(* OperationMap                                                       *)
(* ------------------------------------------------------------------ *)
getOperationCount(o) == Len(o)

hasOperation(o, token) == \E i \in 1..Len(o) : o[i].token = token

getOperation(o, token) == o[CHOOSE i \in 1..Len(o) : o[i].token = token]

removeOperation(o, token) == SelectSeq(o, LAMBDA x : x.token # token)

hasPruneableOperation(o) == \E i \in 1..Len(o) : o[i].pruneable

\* the token of the pruneable operation added first, 0 (a null token) if none
getOldestPruneableOperation(o) ==
    IF hasPruneableOperation(o)
    THEN o[CHOOSE i \in 1..Len(o) :
              /\ o[i].pruneable
              /\ \A j \in 1..(i - 1) : ~o[j].pruneable].token
    ELSE 0

setOperationAuthToken(o, token) ==
    [i \in 1..Len(o) |-> IF o[i].token = token THEN [o[i] EXCEPT !.authTok = TRUE] ELSE o[i]]

getOperationsForToken(o, who) == SelectSeq(o, LAMBDA x : x.binder = who)

(* ------------------------------------------------------------------ *)
(* AuthTokenTable                                                     *)
(* ------------------------------------------------------------------ *)
\* the table keeps the token of a completed operation
MarkCompleted_keepsToken(a, handle) == a

MarkCompleted(a, handle) == a \ {handle}

\* the answers mAuthTokenTable.FindAuthorization can give for a key with the
\* characteristics all and the operation handle; E.token: what the table
\* finds out about a candidate token (its age, its secure id)
FindAuthorization(a, all, handle, E) ==
    IF "NO_AUTH_REQUIRED" \in all THEN {"AUTH_NOT_REQUIRED"}
    ELSE IF "AUTH_TIMEOUT" \notin all
    THEN IF handle = 0 THEN {"OP_HANDLE_REQUIRED"}
         ELSE IF handle \in a THEN {"OK"}
         ELSE {"AUTH_TOKEN_NOT_FOUND"}
    ELSE IF a = {} THEN {"AUTH_TOKEN_NOT_FOUND"}
    ELSE E.token

\* a missing per-operation token fails the call whoever asks
getAuthToken_tokenRequired(err, failOnTokenMissing) ==
    CASE err = "OK" -> [rc |-> "NO_ERROR", tok |-> TRUE]
      [] err = "AUTH_NOT_REQUIRED" -> [rc |-> "NO_ERROR", tok |-> FALSE]
      [] err \in {"AUTH_TOKEN_NOT_FOUND", "AUTH_TOKEN_EXPIRED", "AUTH_TOKEN_WRONG_SID",
                  "OP_HANDLE_REQUIRED"} ->
            [rc |-> "KEY_USER_NOT_AUTHENTICATED", tok |-> FALSE]
      [] OTHER -> [rc |-> "INVALID_ARGUMENT", tok |-> FALSE]

getAuthToken(err, failOnTokenMissing) ==
    CASE err = "OK" -> [rc |-> "NO_ERROR", tok |-> TRUE]
      [] err = "AUTH_NOT_REQUIRED" -> [rc |-> "NO_ERROR", tok |-> FALSE]
      [] err \in {"AUTH_TOKEN_NOT_FOUND", "AUTH_TOKEN_EXPIRED", "AUTH_TOKEN_WRONG_SID"} ->
            [rc |-> "KEY_USER_NOT_AUTHENTICATED", tok |-> FALSE]
      [] err = "OP_HANDLE_REQUIRED" ->
            [rc |-> IF failOnTokenMissing THEN "KEY_USER_NOT_AUTHENTICATED"
                    ELSE "OP_AUTH_NEEDED",
             tok |-> FALSE]
      [] OTHER -> [rc |-> "INVALID_ARGUMENT", tok |-> FALSE]

(* ------------------------------------------------------------------ *)
(* abort / pruneOperation                                             *)
(* ------------------------------------------------------------------ *)
abort_keepOperation(o, a, token) ==
    IF ~hasOperation(o, token)
    THEN [ops |-> o, auth |-> a, aborted |-> <<>>]
    ELSE [ops |-> o,
          auth |-> MarkCompleted(a, getOperation(o, token).handle),
          aborted |-> <<getOperation(o, token).handle>>]

\* the effect of abort(token) on the operation map and the auth token table
abort(o, a, token) ==
    IF ~hasOperation(o, token)
    THEN [ops |-> o, auth |-> a, aborted |-> <<>>]
    ELSE [ops |-> removeOperation(o, token),
          auth |-> MarkCompleted(a, getOperation(o, token).handle),
          aborted |-> <<getOperation(o, token).handle>>]

pruneOperation_never(o, a) == [ops |-> o, auth |-> a, aborted |-> <<>>, pruned |-> FALSE]

pruneOperation_oldestOfAll(o, a) ==
    LET r == abort(o, a, IF Len(o) > 0 THEN o[1].token ELSE 0) IN
    [ops |-> r.ops, auth |-> r.auth, aborted |-> r.aborted,
     pruned |-> getOperationCount(r.ops) < getOperationCount(o)]

pruneOperation_newest(o, a) ==
    LET newest == IF hasPruneableOperation(o)
                  THEN o[CHOOSE i \in 1..Len(o) :
                            /\ o[i].pruneable
                            /\ \A j \in (i + 1)..Len(o) : ~o[j].pruneable].token
                  ELSE 0
        r == abort(o, a, newest)
    IN  [ops |-> r.ops, auth |-> r.auth, aborted |-> r.aborted,
         pruned |-> getOperationCount(r.ops) < getOperationCount(o)]

pruneOperation(o, a) ==
    LET oldest == getOldestPruneableOperation(o)
        r == abort(o, a, oldest)
    IN  [ops |-> r.ops, auth |-> r.auth, aborted |-> r.aborted,
         pruned |-> getOperationCount(r.ops) < getOperationCount(o)]

\* begin, lines 1293-1298
RECURSIVE PruneWhileFull(_, _, _)
PruneWhileFull(o, a, ab) ==
    IF getOperationCount(o) >= kMaxOperations
    THEN LET p == pruneOperation(o, a) IN
         IF ~p.pruned THEN [ops |-> o, auth |-> a, aborted |-> ab]
         ELSE PruneWhileFull(p.ops, p.auth, ab \o p.aborted)
    ELSE [ops |-> o, auth |-> a, aborted |-> ab]

\* dev->begin is called again until the keymaster accepts, and nothing is pruned
BeginRetry_untilAccepted(o, a, ab, n, fin, begins) ==
    [rc |-> fin, ops |-> o, auth |-> a, aborted |-> ab, begins |-> begins + n]

\* begin, lines 1310-1325: the keymaster answers TOO_MANY_OPERATIONS n times
\* and then fin; begins counts the calls of dev->begin
RECURSIVE BeginRetry(_, _, _, _, _, _)
BeginRetry(o, a, ab, n, fin, begins) ==
    LET rc == IF n > 0 THEN "TOO_MANY_OPERATIONS" ELSE fin
        stop == [rc |-> rc, ops |-> o, auth |-> a, aborted |-> ab, begins |-> begins]
    IN
    IF rc = "TOO_MANY_OPERATIONS" /\ hasPruneableOperation(o)
    THEN LET p == pruneOperation(o, a) IN
         IF ~p.pruned THEN stop
         ELSE BeginRetry(p.ops, p.auth, ab \o p.aborted, n - 1, fin, begins + 1)
    ELSE stop

(* ------------------------------------------------------------------ *)
(* begin                                                              *)
(* ------------------------------------------------------------------ *)
checkAllowedOperationParams_authTokenOnly(params) == "AUTH_TOKEN" \notin params

checkAllowedOperationParams(params) == params \cap RestrictedTags = {}

ReturnAll(b, o, n, a, call) ==
    /\ blobs' = b
    /\ ops' = o
    /\ nextToken' = n
    /\ authTable' = a
    /\ lastCall' = call
    /\ UNCHANGED <<userState, chars>>

Repeat(x, n) == [i \in 1..n |-> x]

\* begin from the pruning loop on (lines 1291-1353)
begin_device(callingUid, key, pruneable, b, all, auth, tr, E) ==
    LET p == PruneWhileFull(ops, authTable, <<>>) IN
    \E n \in E.tooMany, fin \in E.kmBegin :
      LET r == BeginRetry(p.ops, p.auth, p.aborted, n, fin, 1)
          t == tr \o Repeat("begin", r.begins)
      IN
      IF r.rc # "OK"
      THEN ReturnAll(b, r.ops, nextToken, r.auth,
                     CallA("begin", KmCode(r.rc), key, 0, t, r.aborted))
      ELSE ReturnAll(b,
                     Append(r.ops, [token |-> nextToken, handle |-> nextToken,
                                    pruneable |-> pruneable, binder |-> callingUid,
                                    authTok |-> auth.tok, chars |-> all]),
                     nextToken + 1, r.auth,
                     CallA("begin", auth.rc, key, nextToken, t, r.aborted))

\* begin from the characteristics merge on (lines 1225-1289)
begin_authorize(callingUid, key, pruneable, entropy, b, tr, E) ==
    LET c == getCharsForName(chars, userState, key)
        teeEnforced == b[key].params
        persisted == IF isOk(c.rc) THEN c.blob.params ELSE {}
        all == (persisted \ teeEnforced) \cup teeEnforced
        t1 == tr \o <<"get">>
    IN
    \E err \in FindAuthorization(authTable, all, 0, E) :
      LET auth == getAuthToken(err, FALSE) IN
      IF ~isOk(auth.rc) /\ auth.rc # "OP_AUTH_NEEDED"
      THEN ReturnAll(b, ops, nextToken, authTable, Call("begin", auth.rc, key, 0, t1))
      ELSE \E ent \in (IF entropy THEN E.rng ELSE {"OK"}) :
        LET t2 == IF entropy THEN t1 \o <<"addRngEntropy">> ELSE t1 IN
        IF ent # "OK"
        THEN ReturnAll(b, ops, nextToken, authTable, Call("begin", KmCode(ent), key, 0, t2))
        ELSE \E az \in E.enforce :
          IF ~isOk(az)
          THEN ReturnAll(b, ops, nextToken, authTable, Call("begin", az, key, 0, t2))
          ELSE begin_device(callingUid, key, pruneable, b, all, auth, t2, E)

\* begin, lines 1181-1192: the caller must be granted to act for the target
\* uid, and only the system may begin an operation that is not pruneable
begin_permitted_grantOnly(callingUid, pruneable, granted) ==
    IF ~granted THEN "PERMISSION_DENIED" ELSE "NO_ERROR"

begin_permitted(callingUid, pruneable, granted) ==
    IF ~granted THEN "PERMISSION_DENIED"
    ELSE IF ~pruneable /\ get_app_id(callingUid) # AID_SYSTEM THEN "PERMISSION_DENIED"
    ELSE "NO_ERROR"

begin_keyForNameCode_asRead(rc, blob) == rc

\* begin, lines 1197-1205: LOCKED on a super-encrypted blob is reported as
\* KEY_USER_NOT_AUTHENTICATED
begin_keyForNameCode(rc, blob) ==
    IF rc = "LOCKED" /\ blob.super THEN "KEY_USER_NOT_AUTHENTICATED" ELSE rc

Begin(callingUid, targetUid, name, pruneable, params, entropy, E) ==
    LET uid == getEffectiveUid(callingUid, targetUid)
        key == <<uid, name>>
    IN
    \E granted \in E.perm :
      IF ~isOk(begin_permitted(callingUid, pruneable, granted))
      THEN Return(Call("begin", begin_permitted(callingUid, pruneable, granted), key, 0, <<>>))
      ELSE IF ~checkAllowedOperationParams(params)
      THEN Return(Call("begin", "INVALID_ARGUMENT", key, 0, <<>>))
      ELSE
        LET r == getKeyForName(blobs, userState, key)
            rc == begin_keyForNameCode(r.rc, r.blob)
        IN
        IF ~isOk(rc) THEN Return(Call("begin", rc, key, 0, <<"get">>))
        ELSE \E c1 \in E.kmChar :
          IF c1 = "KEY_REQUIRES_UPGRADE"
          THEN \E ue \in UpgradeEnvs(E) :
            LET u == upgradeKeyBlob(blobs, userState, key, ue)
                t == <<"get", "getKeyCharacteristics">> \o u.trace
            IN
            IF ~isOk(u.rc)
            THEN ReturnAll(u.blobs, ops, nextToken, authTable, Call("begin", u.rc, key, 0, t))
            ELSE \E c2 \in E.kmChar :
              IF c2 # "OK"
              THEN ReturnAll(u.blobs, ops, nextToken, authTable,
                             Call("begin", KmCode(c2), key, 0,
                                  t \o <<"getKeyCharacteristics">>))
              ELSE begin_authorize(callingUid, key, pruneable, entropy, u.blobs,
                                   t \o <<"getKeyCharacteristics">>, E)
          ELSE IF c1 # "OK"
          THEN Return(Call("begin", KmCode(c1), key, 0, <<"get", "getKeyCharacteristics">>))
          ELSE begin_authorize(callingUid, key, pruneable, entropy, blobs,
                               <<"get", "getKeyCharacteristics">>, E)

(* ------------------------------------------------------------------ *)
(* update / finish / abort / binderDied / addAuthToken                *)
(* ------------------------------------------------------------------ *)
ReturnOps(o, a, call) ==
    /\ ops' = o
    /\ authTable' = a
    /\ lastCall' = call
    /\ UNCHANGED <<userState, blobs, chars, nextToken>>

\* the results addOperationAuthTokenIfNeeded can give for a registered
\* operation, each with the operation map it leaves
\* the table is asked at every call, whether or not a token is cached
addOperationAuthTokenIfNeeded_alwaysLookup(o, a, token, E) ==
    { LET r == getAuthToken(err, TRUE) IN
      [rc |-> r.rc,
       ops |-> IF isOk(r.rc) /\ r.tok THEN setOperationAuthToken(o, token) ELSE o,
       tok |-> isOk(r.rc) /\ r.tok]
      : err \in FindAuthorization(a, getOperation(o, token).chars,
                                  getOperation(o, token).handle, E) }

addOperationAuthTokenIfNeeded(o, a, token, E) ==
    IF getOperation(o, token).authTok THEN {[rc |-> "NO_ERROR", ops |-> o, tok |-> TRUE]}
    ELSE { LET r == getAuthToken(err, TRUE) IN
           [rc |-> r.rc,
            ops |-> IF isOk(r.rc) /\ r.tok THEN setOperationAuthToken(o, token) ELSE o,
            tok |-> isOk(r.rc) /\ r.tok]
           : err \in FindAuthorization(a, getOperation(o, token).chars,
                                       getOperation(o, token).handle, E) }

Update(token, params, E) ==
    IF ~checkAllowedOperationParams(params)
    THEN Return(Call("update", "INVALID_ARGUMENT", NoKey, token, <<>>))
    ELSE IF ~hasOperation(ops, token)
    THEN Return(Call("update", "INVALID_OPERATION_HANDLE", NoKey, token, <<>>))
    ELSE \E au \in addOperationAuthTokenIfNeeded(ops, authTable, token, E) :
      IF ~isOk(au.rc) THEN ReturnOps(au.ops, authTable, Call("update", au.rc, NoKey, token, <<>>))
      ELSE \E az \in E.enforce :
        IF ~isOk(az) THEN ReturnOps(au.ops, authTable, Call("update", az, NoKey, token, <<>>))
        ELSE \E ret \in E.km :
          ReturnOps(au.ops, authTable,
                    CallT("update", KmCode(ret), NoKey, token, <<"update">>, au.tok))

Finish(token, params, entropy, E) ==
    IF ~checkAllowedOperationParams(params)
    THEN Return(Call("finish", "INVALID_ARGUMENT", NoKey, token, <<>>))
    ELSE IF ~hasOperation(ops, token)
    THEN Return(Call("finish", "INVALID_OPERATION_HANDLE", NoKey, token, <<>>))
    ELSE \E au \in addOperationAuthTokenIfNeeded(ops, authTable, token, E) :
      IF ~isOk(au.rc) THEN ReturnOps(au.ops, authTable, Call("finish", au.rc, NoKey, token, <<>>))
      ELSE \E ent \in (IF entropy THEN E.rng ELSE {"OK"}) :
        LET t == IF entropy THEN <<"addRngEntropy">> ELSE <<>> IN
        IF ent # "OK"
        THEN ReturnOps(au.ops, authTable, Call("finish", KmCode(ent), NoKey, token, t))
        ELSE \E az \in E.enforce :
          IF ~isOk(az) THEN ReturnOps(au.ops, authTable, Call("finish", az, NoKey, token, t))
          ELSE \E ret \in E.km :
            ReturnOps(removeOperation(au.ops, token),
                      MarkCompleted(authTable, getOperation(ops, token).handle),
                      CallT("finish", KmCode(ret), NoKey, token, t \o <<"finish">>, au.tok))

Abort(token, E) ==
    IF ~hasOperation(ops, token)
    THEN Return(Call("abort", "INVALID_OPERATION_HANDLE", NoKey, token, <<>>))
    ELSE \E ret \in E.km :
      LET r == abort(ops, authTable, token) IN
      ReturnOps(r.ops, r.auth, CallA("abort", KmCode(ret), NoKey, token, <<"abort">>, r.aborted))

RECURSIVE abortAll(_, _, _, _)
abortAll(o, a, ab, toAbort) ==
    IF toAbort = <<>> THEN [ops |-> o, auth |-> a, aborted |-> ab]
    ELSE LET r == abort(o, a, Head(toAbort).token) IN
         abortAll(r.ops, r.auth, ab \o r.aborted, Tail(toAbort))

BinderDied_firstOnly(who) ==
    LET all == getOperationsForToken(ops, who)
        r == abortAll(ops, authTable, <<>>, IF all = <<>> THEN <<>> ELSE <<Head(all)>>)
    IN
    ReturnOps(r.ops, r.auth,
              CallA("binderDied", "NO_ERROR", NoKey, 0, Repeat("abort", Len(r.aborted)), r.aborted))

BinderDied(who) ==
    LET r == abortAll(ops, authTable, <<>>, getOperationsForToken(ops, who)) IN
    ReturnOps(r.ops, r.auth,
              CallA("binderDied", "NO_ERROR", NoKey, 0, Repeat("abort", Len(r.aborted)), r.aborted))

\* challenge: the operation handle the token authorizes; valid: length and
\* version of the token are the expected ones
AddAuthToken(challenge, valid, E) ==
    \E granted \in E.perm :
      IF ~granted THEN Return(Call("addAuthToken", "PERMISSION_DENIED", NoKey, challenge, <<>>))
      ELSE IF ~valid THEN Return(Call("addAuthToken", "INVALID_ARGUMENT", NoKey, challenge, <<>>))
      ELSE ReturnOps(ops, authTable \cup {challenge},
                     Call("addAuthToken", "NO_ERROR", NoKey, challenge, <<>>))

(* ------------------------------------------------------------------ *)
(* state, blob and user entry points                                  *)
(* ------------------------------------------------------------------ *)
\* mKeyStore->getKeyForName(&blob, name, uid, TYPE_GENERIC)
getGenericForName(b, st, key) ==
    IF ~b[key].present \/ b[key].type # "GENERIC" THEN "KEY_NOT_FOUND"
    ELSE IF b[key].enc /\ st # "NO_ERROR" THEN st
    ELSE "NO_ERROR"

\* mKeyStore->get(filename, &blob, TYPE_ANY, user)
getAny(b, st, key) ==
    IF ~b[key].present THEN "KEY_NOT_FOUND"
    ELSE IF (b[key].enc \/ b[key].super) /\ st # "NO_ERROR" THEN st
    ELSE "NO_ERROR"

\* the blob insert writes: Blob(item, TYPE_GENERIC) with setEncrypted
insert_keyBlob(flags) ==
    [NoBlob EXCEPT !.present = TRUE, !.enc = "ENCRYPTED" \in flags, !.type = "GENERIC"]

\* the authorizations of a key made by generate or import_key
LegacyParams == {"NO_AUTH_REQUIRED", "ALGORITHM"}

GetState(E) ==
    \E perm \in E.perm :
      IF ~perm THEN Return(Call("getState", "PERMISSION_DENIED", NoKey, 0, <<>>))
      ELSE Return(Call("getState", userState, NoKey, 0, <<"getState">>))

Get(callingUid, targetUid, name, E) ==
    LET key == <<getEffectiveUid(callingUid, targetUid), name>> IN
    \E perm \in E.perm :
      IF ~perm THEN Return(Call("get", "PERMISSION_DENIED", key, 0, <<>>))
      ELSE Return(Call("get", getGenericForName(blobs, userState, key), key, 0, <<"get">>))

Insert(callingUid, targetUid, name, flags, E) ==
    LET key == <<getEffectiveUid(callingUid, targetUid), name>> IN
    \E perm \in E.perm :
      LET result == checkBinderPermissionAndKeystoreState(perm, "ENCRYPTED" \in flags) IN
      IF ~isOk(result) THEN Return(Call("insert", result, key, 0, <<>>))
      ELSE \E p \in E.put :
        IF ~p THEN Return(Call("insert", "SYSTEM_ERROR", key, 0, <<"put">>))
        ELSE ReturnBlobs([blobs EXCEPT ![key] = insert_keyBlob(flags)], chars,
                         Call("insert", "NO_ERROR", key, 0, <<"put">>))

Exist(callingUid, targetUid, name, E) ==
    LET key == <<getEffectiveUid(callingUid, targetUid), name>> IN
    \E perm \in E.perm :
      IF ~perm THEN Return(Call("exist", "PERMISSION_DENIED", key, 0, <<>>))
      ELSE Return(Call("exist", IF blobs[key].present THEN "NO_ERROR" ELSE "KEY_NOT_FOUND",
                       key, 0, <<"getBlobFileNameIfExists">>))

List(callingUid, targetUid, E) ==
    LET key == <<getEffectiveUid(callingUid, targetUid), "">> IN
    \E perm \in E.perm :
      IF ~perm THEN Return(Call("list", "PERMISSION_DENIED", key, 0, <<>>))
      ELSE \E l \in E.list :
        Return(Call("list", IF l THEN "NO_ERROR" ELSE "SYSTEM_ERROR", key, 0, <<"list">>))

Reset(E) ==
    \E perm \in E.perm :
      IF ~perm THEN Return(Call("reset", "PERMISSION_DENIED", NoKey, 0, <<>>))
      ELSE ReturnUser("UNINITIALIZED", resetUserBlobs(blobs, FALSE),
                      resetUserChars(blobs, chars, FALSE), authTable,
                      Call("reset", "NO_ERROR", NoKey, 0, <<"resetUser">>))

\* hasParent: parentId # -1; E.copy: the state copyMasterKey leaves the user in
OnUserAdded(hasParent, E) ==
    \E perm \in E.perm :
      IF ~perm THEN Return(Call("onUserAdded", "PERMISSION_DENIED", NoKey, 0, <<>>))
      ELSE IF ~hasParent
      THEN ReturnUser("UNINITIALIZED", resetUserBlobs(blobs, FALSE),
                      resetUserChars(blobs, chars, FALSE), authTable,
                      Call("onUserAdded", "NO_ERROR", NoKey, 0, <<"isEmpty", "resetUser">>))
      ELSE \E st \in E.copy :
        ReturnUser(st, resetUserBlobs(blobs, FALSE),
                   resetUserChars(blobs, chars, FALSE), authTable,
                   Call("onUserAdded", "NO_ERROR", NoKey, 0,
                        <<"isEmpty", "resetUser", "copyMasterKey">>))

OnUserRemoved(E) ==
    \E perm \in E.perm :
      IF ~perm THEN Return(Call("onUserRemoved", "PERMISSION_DENIED", NoKey, 0, <<>>))
      ELSE ReturnUser("UNINITIALIZED", resetUserBlobs(blobs, FALSE),
                      resetUserChars(blobs, chars, FALSE), authTable,
                      Call("onUserRemoved", "NO_ERROR", NoKey, 0, <<"resetUser">>))

\* the result is a boolean: "false" also when the permission is denied
IsEmpty(E) ==
    \E perm \in E.perm :
      IF ~perm THEN Return(Call("isEmpty", "false", NoKey, 0, <<>>))
      ELSE Return(Call("isEmpty",
                       IF \A k \in Keys : ~blobs[k].present /\ ~chars[k].present
                       THEN "true" ELSE "false",
                       NoKey, 0, <<"isEmpty">>))

\* the result is a time: -1 when the permission is denied or there is no file
Getmtime(callingUid, targetUid, name, E) ==
    LET key == <<getEffectiveUid(callingUid, targetUid), name>> IN
    \E perm \in E.perm :
      IF ~perm THEN Return(Call("getmtime", "-1", key, 0, <<>>))
      ELSE IF ~blobs[key].present
      THEN Return(Call("getmtime", "-1", key, 0, <<"getBlobFileNameIfExists">>))
      ELSE \E l \in E.list :
        Return(Call("getmtime", IF l THEN "mtime" ELSE "-1", key, 0,
                    <<"getBlobFileNameIfExists", "fstat">>))

\* the key sizes of the legacy generate
EC_DEFAULT_KEY_SIZE == 256
EC_MIN_KEY_SIZE == 224
EC_MAX_KEY_SIZE == 521
RSA_DEFAULT_KEY_SIZE == 2048
RSA_MIN_KEY_SIZE == 512
RSA_MAX_KEY_SIZE == 4096

\* the bounds themselves are rejected
generate_keySize_exclusive(keyType, keySize) ==
    CASE keyType = "EC" ->
           IF keySize = -1 THEN [ok |-> TRUE, size |-> EC_DEFAULT_KEY_SIZE]
           ELSE [ok |-> ~(keySize <= EC_MIN_KEY_SIZE \/ keySize >= EC_MAX_KEY_SIZE),
                 size |-> keySize]
      [] keyType = "RSA" ->
           IF keySize = -1 THEN [ok |-> TRUE, size |-> RSA_DEFAULT_KEY_SIZE]
           ELSE [ok |-> ~(keySize <= RSA_MIN_KEY_SIZE \/ keySize >= RSA_MAX_KEY_SIZE),
                 size |-> keySize]
      [] OTHER -> [ok |-> FALSE, size |-> keySize]

\* generate, lines 426-483, called without arguments: the switch on the key
\* type; ok: the request is not rejected, size: the value of TAG_KEY_SIZE
generate_keySize(keyType, keySize) ==
    CASE keyType = "EC" ->
           IF keySize = -1 THEN [ok |-> TRUE, size |-> EC_DEFAULT_KEY_SIZE]
           ELSE [ok |-> ~(keySize < EC_MIN_KEY_SIZE \/ keySize > EC_MAX_KEY_SIZE),
                 size |-> keySize]
      [] keyType = "RSA" ->
           IF keySize = -1 THEN [ok |-> TRUE, size |-> RSA_DEFAULT_KEY_SIZE]
           ELSE [ok |-> ~(keySize < RSA_MIN_KEY_SIZE \/ keySize > RSA_MAX_KEY_SIZE),
                 size |-> keySize]
      [] OTHER -> [ok |-> FALSE, size |-> keySize]

\* generate: the key is made by generateKey, whose result is returned;
\* size of outerCall: the TAG_KEY_SIZE passed to generateKey
Generate(callingUid, targetUid, name, keyType, keySize, flags, E) ==
    LET key == <<getEffectiveUid(callingUid, targetUid), name>> IN
    \E perm \in E.perm :
      LET result == checkBinderPermissionAndKeystoreState(perm, "ENCRYPTED" \in flags) IN
      IF ~isOk(result)
      THEN outerCall' = NoOuter /\ Return(Call("generate", result, key, 0, <<>>))
      ELSE IF ~generate_keySize(keyType, keySize).ok
      THEN outerCall' = NoOuter /\ Return(Call("generate", "SYSTEM_ERROR", key, 0, <<>>))
      ELSE /\ GenerateKey(callingUid, key[1], name, LegacyParams, flags,
                          [E EXCEPT !.perm = {TRUE}])
           /\ outerCall' = [NoOuter EXCEPT !.op = "generate", !.rc = lastCall'.rc,
                                           !.size = generate_keySize(keyType, keySize).size]

\* import_key: parseOk says that the data is a PKCS8 key of a supported
\* type; the key is made by importKey, whose result is logged
Import_key(callingUid, targetUid, name, parseOk, flags, E) ==
    IF ~parseOk
    THEN /\ outerCall' = NoOuter
         /\ Return(Call("import_key", "SYSTEM_ERROR",
                        <<getEffectiveUid(callingUid, targetUid), name>>, 0, <<>>))
    ELSE /\ ImportKey(callingUid, targetUid, name, LegacyParams, flags, E)
         /\ outerCall' = [NoOuter EXCEPT !.op = "import_key", !.rc = "NO_ERROR"]

(* ------------------------------------------------------------------ *)
(* grant / ungrant / duplicate / clear_uid / exportKey                *)
(* ------------------------------------------------------------------ *)
\* the result of grant is a string: "" when nothing was granted
Grant(callingUid, name, granteeUid, E) ==
    LET key == <<callingUid, name>> IN
    \E perm \in E.perm :
      LET result == checkBinderPermissionAndKeystoreState(perm, TRUE) IN
      IF ~isOk(result)
      THEN UNCHANGED grants /\ Return(Call("grant", "", key, 0, <<>>))
      ELSE IF ~blobs[key].present
      THEN UNCHANGED grants /\ Return(Call("grant", "", key, 0, <<"access">>))
      ELSE /\ grants' = grants \cup {<<callingUid, name, granteeUid>>}
           /\ Return(Call("grant", "grant", key, 0, <<"access", "addGrant">>))

Ungrant(callingUid, name, granteeUid, E) ==
    LET key == <<callingUid, name>> IN
    \E perm \in E.perm :
      LET result == checkBinderPermissionAndKeystoreState(perm, TRUE) IN
      IF ~isOk(result)
      THEN UNCHANGED grants /\ Return(Call("ungrant", result, key, 0, <<>>))
      ELSE IF ~blobs[key].present
      THEN UNCHANGED grants /\ Return(Call("ungrant", "KEY_NOT_FOUND", key, 0, <<"access">>))
      ELSE /\ grants' = grants \ {<<callingUid, name, granteeUid>>}
           /\ Return(Call("ungrant",
                          IF <<callingUid, name, granteeUid>> \in grants
                          THEN "NO_ERROR" ELSE "KEY_NOT_FOUND",
                          key, 0, <<"access", "removeGrant">>))

\* duplicate, lines 683-704: the uid the key is read from, the uid it is
\* written to, and whether the caller may do that; granted: is_granted_to
duplicate_uids(callingUid, srcUid, destUid, granted) ==
    LET src == IF srcUid = -1 \/ srcUid = callingUid THEN callingUid ELSE srcUid
        dest == IF destUid = -1 THEN callingUid ELSE destUid
    IN  [src |-> src, dest |-> dest,
         ok |-> /\ (src # callingUid => granted)
                /\ (src # dest => src = callingUid /\ granted)]

Duplicate(callingUid, srcKey, srcUid, destKey, destUid, E) ==
    \E perm \in E.perm, granted \in E.perm :
      LET u == duplicate_uids(callingUid, srcUid, destUid, granted)
          source == <<u.src, srcKey>>
          target == <<u.dest, destKey>>
          responseCode == getAny(blobs, userState, source)
      IN
      IF ~perm THEN Return(Call("duplicate", "PERMISSION_DENIED", target, 0, <<>>))
      ELSE IF ~isKeystoreUnlocked(userState)
      THEN Return(Call("duplicate", userState, target, 0, <<>>))
      ELSE IF ~u.ok THEN Return(Call("duplicate", "PERMISSION_DENIED", target, 0, <<>>))
      ELSE IF blobs[target].present
      THEN Return(Call("duplicate", "SYSTEM_ERROR", target, 0, <<"access">>))
      ELSE IF ~isOk(responseCode)
      THEN Return(Call("duplicate", responseCode, target, 0, <<"access", "get">>))
      ELSE \E p \in E.put :
        IF ~p THEN Return(Call("duplicate", "SYSTEM_ERROR", target, 0, <<"access", "get", "put">>))
        ELSE ReturnBlobs([blobs EXCEPT ![target] = blobs[source]], chars,
                         Call("duplicate", "NO_ERROR", target, 0, <<"access", "get", "put">>))

\* perm: has_permission(callingUid, permission)
checkBinderPermissionSelfOrSystem(perm, callingUid, targetUid) ==
    perm /\ (getEffectiveUid(callingUid, targetUid) = callingUid \/ callingUid = AID_SYSTEM)

\* mKeyStore->removeAllGrantsToUid(uid)
removeAllGrantsToUid(g, uid) == {x \in g : x[3] # uid}

\* clear_uid, lines 768-776: the listed alias the loop skips
clear_uid_keeps(b, st, key) ==
    /\ get_app_id(key[1]) = AID_SYSTEM
    /\ getAny(b, st, key) = "NO_ERROR"
    /\ b[key].critical

\* mKeyStore->list(prefix, &aliases, user): the aliases of the key files of uid
listed(b, uid) == {k \in Keys : k[1] = uid /\ b[k].present}

Clear_uid(callingUid, targetUid64, E) ==
    LET targetUid == getEffectiveUid(callingUid, targetUid64)
        key == <<targetUid, "">>
    IN
    \E perm \in E.perm :
      IF ~checkBinderPermissionSelfOrSystem(perm, callingUid, targetUid64)
      THEN UNCHANGED grants /\ Return(Call("clear_uid", "PERMISSION_DENIED", key, 0, <<>>))
      ELSE /\ grants' = removeAllGrantsToUid(grants, targetUid)
           /\ \E l \in E.list :
                IF ~l
                THEN Return(Call("clear_uid", "SYSTEM_ERROR", key, 0,
                                 <<"removeAllGrantsToUid", "list">>))
                ELSE \E d \in [listed(blobs, targetUid) -> E.del \X E.del] :
                  LET gone == {k \in listed(blobs, targetUid) :
                                  ~clear_uid_keeps(blobs, userState, k)}
                  IN
                  ReturnBlobs([k \in Keys |-> IF k \in gone /\ d[k][1] THEN NoBlob ELSE blobs[k]],
                              [k \in Keys |-> IF k \in gone /\ d[k][2] THEN NoChar ELSE chars[k]],
                              Call("clear_uid", "NO_ERROR", key, 0,
                                   <<"removeAllGrantsToUid", "list">>
                                   \o Repeat("del", 2 * Cardinality(gone))))

\* exportKey: on the retry after an upgrade only a transport error of
\* dev->exportKey is kept as the result
ExportKey(callingUid, targetUid, name, E) ==
    LET key == <<getEffectiveUid(callingUid, targetUid), name>>
        r == getKeyForName(blobs, userState, key)
    IN
    \E granted \in E.perm :
      IF ~granted THEN Return(Call("exportKey", "PERMISSION_DENIED", key, 0, <<>>))
      ELSE IF ~isOk(r.rc) THEN Return(Call("exportKey", r.rc, key, 0, <<"get">>))
      ELSE \E c1 \in E.kmChar :
        IF c1 = "KEY_REQUIRES_UPGRADE"
        THEN \E ue \in UpgradeEnvs(E) :
          LET u == upgradeKeyBlob(blobs, userState, key, ue)
              t == <<"get", "exportKey">> \o u.trace
          IN
          IF ~isOk(u.rc)
          THEN ReturnBlobs(u.blobs, chars, Call("exportKey", u.rc, key, 0, t))
          ELSE \E c2 \in E.kmChar :
            ReturnBlobs(u.blobs, chars,
                        CallE(IF c2 = "HIDL" THEN "SYSTEM_ERROR" ELSE "NO_ERROR",
                              key, t \o <<"exportKey">>, c2 = "OK"))
        ELSE Return(CallE(KmCode(c1), key, <<"get", "exportKey">>, c1 = "OK"))

\* get_pubkey, lines 575-587: exportKey for the caller's own key
Get_pubkey(callingUid, name, E) ==
    /\ ExportKey(callingUid, UID_SELF, name, E)
    /\ outerCall' = [NoOuter EXCEPT !.op = "get_pubkey", !.rc = lastCall'.rc]

(* ------------------------------------------------------------------ *)
(* sign / verify                                                      *)
(* ------------------------------------------------------------------ *)
\* the codes of ResponseCode, which are the positive ones; the error codes
\* of the keymaster are negative
ResponseCodes ==
    {"NO_ERROR", "LOCKED", "UNINITIALIZED", "SYSTEM_ERROR", "PERMISSION_DENIED",
     "KEY_NOT_FOUND", "WRONG_PASSWORD", "OP_AUTH_NEEDED"}

\* every code is passed on as it is
translateResultToLegacyResult_verbatim(rc) == rc

\* lines 1966-1971: result > 0 is kept, everything else is SYSTEM_ERROR
translateResultToLegacyResult(rc) ==
    IF rc \in ResponseCodes THEN rc ELSE "SYSTEM_ERROR"

\* sign and verify up to the return of addLegacyBeginParams: the permission
\* check, then getKeyCharacteristics for the caller's own key
Sign(op, callingUid, name, E) ==
    \E perm \in E.perm :
      IF ~perm
      THEN /\ outerCall' = NoOuter
           /\ Return(Call(op, "PERMISSION_DENIED", <<callingUid, name>>, 0, <<>>))
      ELSE /\ GetKeyCharacteristics(callingUid, UID_SELF, name, [E EXCEPT !.perm = {TRUE}])
           /\ outerCall' = [NoOuter EXCEPT !.op = op, !.pc = "begin", !.uid = callingUid,
                                           !.name = name]

\* doLegacySignVerify, lines 2028-2037: begin for the caller's own key
doLegacySignVerify_begin(E) ==
    /\ outerCall.pc = "begin"
    /\ Begin(outerCall.uid, UID_SELF, outerCall.name, TRUE, {}, FALSE,
             [E EXCEPT !.perm = {TRUE}])
    /\ outerCall' = IF isOk(lastCall'.rc)
                    THEN [outerCall EXCEPT !.pc = "update", !.tok = lastCall'.tok]
                    ELSE [outerCall EXCEPT !.pc = "", !.tok = 0,
                                           !.rc = translateResultToLegacyResult(lastCall'.rc)]

\* doLegacySignVerify, lines 2038-2057: the update loop as one update;
\* consumed: the keymaster took all of the data
doLegacySignVerify_update(consumed, E) ==
    /\ outerCall.pc = "update"
    /\ Update(outerCall.tok, {}, E)
    /\ outerCall' = IF ~isOk(lastCall'.rc)
                    THEN [outerCall EXCEPT !.pc = "", !.tok = 0,
                                           !.rc = translateResultToLegacyResult(lastCall'.rc)]
                    ELSE IF ~consumed
                    THEN [outerCall EXCEPT !.pc = "", !.tok = 0, !.rc = "SYSTEM_ERROR"]
                    ELSE [outerCall EXCEPT !.pc = "finish"]

\* doLegacySignVerify, lines 2059-2074: finish
doLegacySignVerify_finish(E) ==
    /\ outerCall.pc = "finish"
    /\ Finish(outerCall.tok, {}, FALSE, E)
    /\ outerCall' = [outerCall EXCEPT !.pc = "", !.tok = 0,
                                      !.rc = translateResultToLegacyResult(lastCall'.rc)]

(* ------------------------------------------------------------------ *)
(* Specifications                                                     *)
(* ------------------------------------------------------------------ *)
Init ==
    /\ userState = "UNINITIALIZED"
    /\ blobs = [k \in Keys |-> NoBlob]
    /\ chars = [k \in Keys |-> NoChar]
    /\ ops = <<>>
    /\ nextToken = 1
    /\ authTable = {}
    /\ lastCall = Call("init", "NO_ERROR", NoKey, 0, <<>>)
    /\ cancelled = {}
    /\ workers = [w \in Workers |-> Idle]
    /\ kmCalls = <<>>
    /\ grants = {}
    /\ outerCall = NoOuter

\* the answers of the collaborators in the key-store specification
FullEnv ==
    [perm |-> BOOLEAN, km |-> {"OK", "ERR", "HIDL"}, fbkm |-> {"OK", "ERR"},
     rng |-> {"OK", "ERR"}, put |-> BOOLEAN, del |-> BOOLEAN, fallback |-> BOOLEAN,
     kmChar |-> {"OK", "KEY_REQUIRES_UPGRADE", "ERR", "HIDL"}, uniq |-> BOOLEAN]

\* importKey is called by the system, and its keymasters answer or refuse
ImportEnv == [FullEnv EXCEPT !.perm = {TRUE}, !.km = {"OK", "ERR"}, !.rng = {"OK"}]

\* keys are created under the system uid; an app's request for its own uid
\* carries the CRITICAL flag, which only the system uid may set
CreateInputs ==
    {i \in [c : Uids, uid : {UID_SELF}, flags : FlagSets] :
        \/ i.c = AID_SYSTEM
        \/ i.c = AppUid /\ i.flags = {"CRITICAL"}}

Next ==
    \/ /\ UNCHANGED auxVars
       /\ \E i \in CreateInputs, n \in Aliases, p \in KeyParamSets :
             GenerateKey(i.c, i.uid, n, p, i.flags, FullEnv)
    \/ /\ UNCHANGED auxVars
       /\ \E f \in FlagSets, n \in Aliases, p \in KeyParamSets :
             ImportKey(AID_SYSTEM, UID_SELF, n, p, f, ImportEnv)
    \/ /\ UNCHANGED auxVars
       /\ \E n \in Aliases : Del(AppUid, AID_SYSTEM, n, FullEnv)
    \/ /\ UNCHANGED auxVars
       /\ \E n \in Aliases : GetKeyCharacteristics(AID_SYSTEM, UID_SELF, n, FullEnv)
    \/ /\ UNCHANGED auxVars
       /\ \E e \in BOOLEAN : OnUserPasswordChanged(e, FullEnv)
    \/ /\ UNCHANGED auxVars
       /\ Lock(FullEnv)
    \/ /\ UNCHANGED auxVars
       /\ \E ok \in BOOLEAN : Unlock(ok, FullEnv)

Spec == Init /\ [][Next]_vars

(* ------------------------------------------------------------------ *)
(* The operation pool                                                 *)
(* ------------------------------------------------------------------ *)
TheKey == <<AID_SYSTEM, "k">>

\* every collaborator answers with success
GoodEnv ==
    [perm |-> {TRUE}, km |-> {"OK"}, fbkm |-> {"OK"}, rng |-> {"OK"}, put |-> {TRUE},
     del |-> {TRUE}, fallback |-> {FALSE},
     kmChar |-> {"OK"}, kmBegin |-> {"OK"}, tooMany |-> {0}, enforce |-> {"NO_ERROR"},
     token |-> {"OK"}, uniq |-> {TRUE}]

\* the keymaster may refuse a begin, and update, finish and abort may fail;
\* a keymaster that has all but one of kMaxOperations operations open may
\* report TOO_MANY_OPERATIONS once before its final answer
PoolEnv(o) ==
    [GoodEnv EXCEPT !.km = {"OK", "ERR"}, !.kmBegin = {"OK", "ERR"},
                    !.tooMany = IF Len(o) >= kMaxOperations - 1 THEN {0, 1} ELSE {0}]

\* the tokens the client of the pool calls update, finish and abort on
ClientTokens == {1}

\* the non-pruneable operations were begun one after the other, with no
\* pruneable operation that is still registered between them
OneBurst(o) ==
    \A i, k \in 1..Len(o) :
       (i < k /\ ~o[i].pruneable /\ ~o[k].pruneable) =>
          \A j \in i..k : ~o[j].pruneable

\* the callers of begin: the system with either kind of operation, an app
\* asking for a non-pruneable one
PoolBegins == {<<AID_SYSTEM, TRUE>>, <<AID_SYSTEM, FALSE>>, <<AppUid, FALSE>>}

NextPool ==
    \/ /\ UNCHANGED auxVars
       /\ ~blobs[TheKey].present
       /\ GenerateKey(AID_SYSTEM, UID_SELF, "k", {"NO_AUTH_REQUIRED"}, {}, GoodEnv)
    \/ /\ UNCHANGED auxVars
       /\ nextToken <= MaxTokens
       /\ \E b \in PoolBegins : Begin(b[1], AID_SYSTEM, "k", b[2], {}, FALSE, PoolEnv(ops))
       /\ OneBurst(ops')
    \/ /\ UNCHANGED auxVars
       /\ \E t \in ClientTokens : Update(t, {}, PoolEnv(ops))
    \/ /\ UNCHANGED auxVars
       /\ \E t \in ClientTokens : Finish(t, {}, FALSE, PoolEnv(ops))
    \/ /\ UNCHANGED auxVars
       /\ \E t \in ClientTokens : Abort(t, PoolEnv(ops))
    \/ /\ UNCHANGED auxVars
       /\ BinderDied(AID_SYSTEM)

SpecPool == Init /\ [][NextPool]_vars

(* ------------------------------------------------------------------ *)
(* The life of an operation                                           *)
(* ------------------------------------------------------------------ *)
\* keys that need no authorization, one per operation, or one within a timeout
OpKeyParamSets == {{"NO_AUTH_REQUIRED"}, {}, {"AUTH_TIMEOUT"}}

\* the parameters of an operation: none, or a tag a client may not pass
OpParams == {{}} \cup {{t} : t \in RestrictedTags}

\* the answers of the collaborators of begin, update, finish and abort
OpEnv ==
    [GoodEnv EXCEPT !.perm = BOOLEAN, !.km = {"OK", "ERR"}, !.rng = {"OK", "ERR"},
                    !.kmChar = {"OK", "ERR"},
                    !.kmBegin = {"OK", "ERR"}, !.enforce = {"NO_ERROR", "KEY_EXPIRED"},
                    !.token = {"OK", "AUTH_TOKEN_EXPIRED"}]

\* the begin calls: <<caller, pruneable, parameters, with entropy>>
OpBegins ==
    {<<AID_SYSTEM, TRUE, {}, FALSE>>, <<AID_SYSTEM, TRUE, {}, TRUE>>,
     <<AppUid, TRUE, {}, FALSE>>, <<AppUid, FALSE, {}, FALSE>>}
    \cup {<<AID_SYSTEM, TRUE, {t}, FALSE>> : t \in RestrictedTags}

\* the finish calls: <<parameters, with entropy>>
OpSteps == {<<{}, FALSE>>, <<{}, TRUE>>} \cup {<<{t}, FALSE>> : t \in RestrictedTags}

\* the challenges of the auth tokens added: none, or the handle of a
\* registered operation
Challenges(o) == {0} \cup {o[i].handle : i \in 1..Len(o)}

\* the handles dev->abort was called with are cancelled by the entry point
\* that called it: abort, begin (pruneOperation) or binderDied
Cancelled ==
    cancelled' = cancelled \cup
        {<<lastCall'.aborted[i], lastCall'.op>> : i \in 1..Len(lastCall'.aborted)}

NextOp ==
    \/ /\ UNCHANGED <<threadVars, legacyVars>>
       /\ ~blobs[TheKey].present
       /\ \E p \in OpKeyParamSets : GenerateKey(AID_SYSTEM, UID_SELF, "k", p, {}, GoodEnv)
       /\ Cancelled
    \/ /\ UNCHANGED <<threadVars, legacyVars>>
       /\ \E ch \in Challenges(ops), valid \in BOOLEAN : AddAuthToken(ch, valid, OpEnv)
       /\ Cancelled
    \/ /\ UNCHANGED <<threadVars, legacyVars>>
       /\ \E i \in OpBegins : Begin(i[1], AID_SYSTEM, "k", i[2], i[3], i[4],
                                      [OpEnv EXCEPT !.tooMany = {0, 1}])
       /\ nextToken' <= MaxOps + 1
       /\ Cancelled
    \/ /\ UNCHANGED <<threadVars, legacyVars>>
       /\ \E t \in 1..MaxOps, q \in OpParams : Update(t, q, OpEnv)
       /\ Cancelled
    \/ /\ UNCHANGED <<threadVars, legacyVars>>
       /\ \E t \in 1..MaxOps, i \in OpSteps : Finish(t, i[1], i[2], OpEnv)
       /\ Cancelled
    \/ /\ UNCHANGED <<threadVars, legacyVars>>
       /\ \E t \in 1..MaxOps : Abort(t, OpEnv)
       /\ Cancelled
    \/ /\ UNCHANGED <<threadVars, legacyVars>>
       /\ \E who \in Uids : BinderDied(who)
       /\ Cancelled

SpecOp == Init /\ [][NextOp]_vars

(* ------------------------------------------------------------------ *)
(* begin against a keymaster that keeps answering TOO_MANY_OPERATIONS *)
(* and an auth token table that gives every answer                    *)
(* ------------------------------------------------------------------ *)
\* the operations begun in the begin specification
MaxBeginOps == 3

\* the keymaster answers TOO_MANY_OPERATIONS up to once more often than
\* there can be operations to prune, and then accepts or refuses; the auth
\* token table answers a key with an auth timeout with every result it has
\* for a table that is not empty
BeginEnv ==
    [GoodEnv EXCEPT !.tooMany = 0..(MaxBeginOps + 1), !.kmBegin = {"OK", "ERR"},
                    !.enforce = {"NO_ERROR", "KEY_EXPIRED"},
                    !.token = {"OK", "AUTH_TOKEN_EXPIRED", "AUTH_TOKEN_WRONG_SID"}]

NextBegin ==
    \/ /\ UNCHANGED auxVars
       /\ ~blobs[TheKey].present
       /\ \E p \in OpKeyParamSets : GenerateKey(AID_SYSTEM, UID_SELF, "k", p, {}, GoodEnv)
    \/ /\ UNCHANGED auxVars
       /\ userState = "UNINITIALIZED"
       /\ OnUserPasswordChanged(FALSE, GoodEnv)
    \/ /\ UNCHANGED auxVars
       /\ AddAuthToken(0, TRUE, GoodEnv)
    \/ /\ UNCHANGED auxVars
       /\ \E pruneable \in BOOLEAN :
             Begin(AID_SYSTEM, AID_SYSTEM, "k", pruneable, {}, FALSE, BeginEnv)
       /\ nextToken' <= MaxBeginOps + 1
    \/ /\ UNCHANGED auxVars
       /\ \E t \in 1..MaxBeginOps : Abort(t, GoodEnv)

SpecBegin == Init /\ [][NextBegin]_vars

(* ------------------------------------------------------------------ *)
(* update and finish of operations that need an auth token            *)
(* ------------------------------------------------------------------ *)
\* the auth token table answers a key with an auth timeout with OK or with
\* AUTH_TOKEN_EXPIRED; the keymaster may refuse update and finish
AuthEnv == [GoodEnv EXCEPT !.km = {"OK", "ERR"}, !.token = {"OK", "AUTH_TOKEN_EXPIRED"}]

\* the keys need one authorization per operation, or one within a timeout
NextAuth ==
    \/ /\ UNCHANGED auxVars
       /\ ~blobs[TheKey].present
       /\ \E p \in {{}, {"AUTH_TIMEOUT"}} : GenerateKey(AID_SYSTEM, UID_SELF, "k", p, {}, GoodEnv)
    \/ /\ UNCHANGED auxVars
       /\ OnUserPasswordChanged(FALSE, GoodEnv)
    \/ /\ UNCHANGED auxVars
       /\ \E ch \in Challenges(ops) : AddAuthToken(ch, TRUE, GoodEnv)
    \/ /\ UNCHANGED auxVars
       /\ Begin(AID_SYSTEM, AID_SYSTEM, "k", TRUE, {}, FALSE, AuthEnv)
       /\ nextToken' <= MaxOps + 1
    \/ /\ UNCHANGED auxVars
       /\ \E t \in 1..MaxOps : Update(t, {}, AuthEnv)
    \/ /\ UNCHANGED auxVars
       /\ \E t \in 1..MaxOps : Finish(t, {}, FALSE, AuthEnv)

SpecAuth == Init /\ [][NextAuth]_vars

(* ------------------------------------------------------------------ *)
(* begin on keys of every kind, in every user state                   *)
(* ------------------------------------------------------------------ *)
NextLock ==
    \/ /\ UNCHANGED auxVars
       /\ ~blobs[TheKey].present
       /\ \E p \in OpKeyParamSets, f \in FlagSets :
             GenerateKey(AID_SYSTEM, UID_SELF, "k", p, f, GoodEnv)
    \/ /\ UNCHANGED auxVars
       /\ OnUserPasswordChanged(FALSE, GoodEnv)
    \/ /\ UNCHANGED auxVars
       /\ Lock(GoodEnv)
    \/ /\ UNCHANGED auxVars
       /\ \E ok \in BOOLEAN : Unlock(ok, GoodEnv)
    \/ /\ UNCHANGED auxVars
       /\ \E ch \in Challenges(ops) : AddAuthToken(ch, TRUE, GoodEnv)
    \/ /\ UNCHANGED auxVars
       /\ \E i \in OpBegins : Begin(i[1], AID_SYSTEM, "k", i[2], i[3], i[4], OpEnv)
       /\ nextToken' <= MaxLockOps + 1
    \/ /\ UNCHANGED auxVars
       /\ \E t \in 1..MaxLockOps : Abort(t, GoodEnv)

SpecLock == Init /\ [][NextLock]_vars

(* ------------------------------------------------------------------ *)
(* Every entry point that asks the permission oracle                  *)
(* ------------------------------------------------------------------ *)
\* the answers of the collaborators; list: mKeyStore->list and fstat
\* succeed, copy: the state copyMasterKey leaves the new user in
EntryEnv ==
    [perm |-> BOOLEAN, km |-> {"OK"}, fbkm |-> {"OK"}, rng |-> {"OK"},
     put |-> {TRUE}, del |-> {TRUE}, fallback |-> {FALSE},
     kmChar |-> {"OK"}, kmBegin |-> {"OK"}, tooMany |-> {0},
     enforce |-> {"NO_ERROR"}, token |-> {"OK"},
     list |-> BOOLEAN, copy |-> {"UNINITIALIZED", "NO_ERROR"}, uniq |-> {TRUE}]

\* the oracle denies every request
DenyEnv == [EntryEnv EXCEPT !.perm = {FALSE}]

\* <<caller, target uid>>: the system for itself and for the app
EntryTargets == {<<AID_SYSTEM, UID_SELF>>, <<AID_SYSTEM, AppUid>>}

\* the system makes keymaster keys for itself, critical or encrypted or
\* both; the app stores generic entries and legacy keys
SystemSelf == {<<AID_SYSTEM, UID_SELF>>}
AppSelf == {<<AppUid, UID_SELF>>}

\* the clients begin one operation at a time
CanBegin == ops = <<>> /\ nextToken <= MaxEntryOps

\* no sign or verify is under way
Returned == outerCall.pc = ""

\* an entry point called by a client; Plain: one that leaves the grants alone
\* and calls no other entry point
Called(A) == UNCHANGED <<cancelled, threadVars>> /\ Returned /\ A

Plain(A) == Called(UNCHANGED grants /\ outerCall' = NoOuter /\ A)

\* the entry points that ask the permission oracle, each with the inputs
\* for which it does ask (import_key asks once the key data is parsed)
EntryCalls(E) ==
    \/ Plain(GetState(E))
    \/ \E i \in EntryTargets, n \in Aliases : Plain(Get(i[1], i[2], n, E))
    \/ \E i \in AppSelf, n \in Aliases, f \in {{}} :
          /\ blobs[<<getEffectiveUid(i[1], i[2]), n>>].type # "KEYMASTER_10"
          /\ Plain(Insert(i[1], i[2], n, f, E))
    \/ \E i \in EntryTargets, n \in Aliases : Plain(Del(i[1], i[2], n, E))
    \/ \E i \in EntryTargets, n \in Aliases : Plain(Exist(i[1], i[2], n, E))
    \/ \E i \in EntryTargets : Plain(List(i[1], i[2], E))
    \/ Plain(Reset(E))
    \/ \E e \in BOOLEAN : Plain(OnUserPasswordChanged(e, E))
    \/ \E p \in BOOLEAN : Plain(OnUserAdded(p, E))
    \/ Plain(OnUserRemoved(E))
    \/ Plain(Lock(E))
    \/ \E ok \in BOOLEAN : Plain(Unlock(ok, E))
    \/ Plain(IsEmpty(E))
    \/ \E i \in AppSelf, n \in Aliases, keySize \in {-1, 0}, f \in {{}} :
          /\ blobs[<<getEffectiveUid(i[1], i[2]), n>>].type # "GENERIC"
          /\ Called(UNCHANGED grants /\ Generate(i[1], i[2], n, "EC", keySize, f, E))
    \/ \E i \in AppSelf, n \in Aliases, f \in {{}} :
          /\ blobs[<<getEffectiveUid(i[1], i[2]), n>>].type # "GENERIC"
          /\ Called(UNCHANGED grants /\ Import_key(i[1], i[2], n, TRUE, f, E))
    \/ \E c \in {AppUid}, n \in Aliases :
          CanBegin /\ Called(UNCHANGED grants /\ Sign("sign", c, n, E))
    \/ \E c \in {AppUid}, n \in Aliases :
          CanBegin /\ Called(UNCHANGED grants /\ Sign("verify", c, n, E))
    \/ \E c \in {AppUid}, n \in Aliases, g \in {AID_SYSTEM} :
          Called(outerCall' = NoOuter /\ Grant(c, n, g, E))
    \/ \E c \in {AppUid}, n \in Aliases, g \in {AID_SYSTEM} :
          Called(outerCall' = NoOuter /\ Ungrant(c, n, g, E))
    \/ \E i \in EntryTargets, n \in Aliases : Plain(Getmtime(i[1], i[2], n, E))
    \/ \E c \in {AppUid}, su \in {-1}, du \in {AID_SYSTEM}, sn \in Aliases, dn \in Aliases :
          Plain(Duplicate(c, sn, su, dn, du, E))
    \/ \E c \in Uids, t \in {UID_SELF, AppUid} :
          Called(outerCall' = NoOuter /\ Clear_uid(c, t, E))
    \/ \E i \in SystemSelf, n \in Aliases, f \in {{"CRITICAL"}, {"CRITICAL", "ENCRYPTED"}} :
          Plain(GenerateKey(i[1], i[2], n, {"NO_AUTH_REQUIRED"}, f, E))
    \/ \E i \in SystemSelf, n \in Aliases, f \in {{"CRITICAL"}} :
          Plain(ImportKey(i[1], i[2], n, {"NO_AUTH_REQUIRED"}, f, E))
    \/ \E i \in EntryTargets, n \in Aliases : Plain(ExportKey(i[1], i[2], n, E))
    \/ \E i \in EntryTargets, n \in Aliases : Plain(GetKeyCharacteristics(i[1], i[2], n, E))
    \/ \E i \in SystemSelf, n \in Aliases, pr \in {TRUE} :
          CanBegin /\ Plain(Begin(i[1], i[2], n, pr, {}, FALSE, E))
    \/ \E valid \in BOOLEAN : Plain(AddAuthToken(0, valid, E))

NextEntry ==
    \/ EntryCalls(EntryEnv)
    \/ \E i \in AppSelf, n \in Aliases :
          Called(UNCHANGED grants /\ Import_key(i[1], i[2], n, FALSE, {}, EntryEnv))
    \/ UNCHANGED <<cancelled, threadVars, grants>> /\ doLegacySignVerify_begin(EntryEnv)
    \/ UNCHANGED <<cancelled, threadVars, grants>>
       /\ \E consumed \in BOOLEAN : doLegacySignVerify_update(consumed, EntryEnv)
    \/ UNCHANGED <<cancelled, threadVars, grants>> /\ doLegacySignVerify_finish(EntryEnv)

SpecEntry == Init /\ [][NextEntry]_vars

(* ------------------------------------------------------------------ *)
(* The legacy entry points against collaborators that may fail        *)
(* ------------------------------------------------------------------ *)
\* the keymaster may refuse every call and the enforcement policy every
\* operation
LegacyEnv ==
    [EntryEnv EXCEPT !.km = {"OK", "ERR"}, !.kmChar = {"OK", "ERR"},
                     !.kmBegin = {"OK", "ERR"}, !.enforce = {"NO_ERROR", "KEY_EXPIRED"}]

NextLegacy ==
    \/ \E f \in {{}, {"ENCRYPTED"}} :
          Called(UNCHANGED grants /\ Generate(AppUid, UID_SELF, "k", "EC", -1, f, LegacyEnv))
    \/ \E f \in {{}, {"ENCRYPTED"}} :
          Called(UNCHANGED grants /\ Import_key(AppUid, UID_SELF, "k", TRUE, f, LegacyEnv))
    \/ Called(UNCHANGED grants /\ Get_pubkey(AppUid, "k", LegacyEnv))
    \/ \E op \in {"sign", "verify"} :
          /\ nextToken <= MaxEntryOps + 1
          /\ Called(UNCHANGED grants /\ Sign(op, AppUid, "k", LegacyEnv))
    \/ UNCHANGED <<cancelled, threadVars, grants>> /\ doLegacySignVerify_begin(LegacyEnv)
    \/ UNCHANGED <<cancelled, threadVars, grants>>
       /\ \E consumed \in BOOLEAN : doLegacySignVerify_update(consumed, LegacyEnv)
    \/ UNCHANGED <<cancelled, threadVars, grants>> /\ doLegacySignVerify_finish(LegacyEnv)
    \/ Plain(OnUserPasswordChanged(FALSE, GoodEnv))
    \/ Plain(Lock(GoodEnv))

SpecLegacy == Init /\ [][NextLegacy]_vars

(* ------------------------------------------------------------------ *)
(* attestKey / attestDeviceIds                                        *)
(* ------------------------------------------------------------------ *)
isDeviceIdAttestationRequested(params) ==
    params \cap {"ATTESTATION_ID_BRAND", "ATTESTATION_ID_DEVICE", "ATTESTATION_ID_IMEI",
                 "ATTESTATION_ID_MANUFACTURER", "ATTESTATION_ID_MEID",
                 "ATTESTATION_ID_MODEL", "ATTESTATION_ID_PRODUCT",
                 "ATTESTATION_ID_SERIAL"} # {}

\* the transient key is deleted only when it was attested
attestDeviceIds_calls_deleteIfAttested(gen, att, del) ==
    IF gen # "OK" THEN [rc |-> KmCode(gen), trace |-> <<"generateKey">>]
    ELSE IF att # "OK" THEN [rc |-> KmCode(att), trace |-> <<"generateKey", "attestKey">>]
    ELSE [rc |-> KmCode(del), trace |-> <<"generateKey", "attestKey", "deleteKey">>]

\* attestDeviceIds, lines 1662-1716: the calls of the keymaster, which
\* answers gen to generateKey, att to attestKey and del to deleteKey
attestDeviceIds_calls(gen, att, del) ==
    IF gen # "OK" THEN [rc |-> KmCode(gen), trace |-> <<"generateKey">>]
    ELSE [rc |-> IF att # "OK" THEN KmCode(att) ELSE KmCode(del),
          trace |-> <<"generateKey", "attestKey", "deleteKey">>]

\* attestKey, lines 1570-1618; upd: the result of updateParamsForAttestation,
\* att: the answer of the keymaster
AttestKey(callingUid, name, params, upd, att) ==
    LET key == <<callingUid, name>>
        r == getKeyForName(blobs, userState, key)
    IN
    IF ~checkAllowedOperationParams(params) \/ isDeviceIdAttestationRequested(params)
    THEN Return(Call("attestKey", "INVALID_ARGUMENT", key, 0, <<>>))
    ELSE IF ~isOk(upd) THEN Return(Call("attestKey", upd, key, 0, <<>>))
    ELSE IF ~isOk(r.rc) THEN Return(Call("attestKey", r.rc, key, 0, <<"get">>))
    ELSE Return(Call("attestKey", KmCode(att), key, 0, <<"get", "attestKey">>))

\* attestDeviceIds, lines 1620-1717; svc: the permission service is found,
\* perm: it grants READ_PRIVILEGED_PHONE_STATE
AttestDeviceIds(callingUid, params, svc, perm, upd, gen, att, del) ==
    IF ~checkAllowedOperationParams(params) \/ ~isDeviceIdAttestationRequested(params)
    THEN Return(Call("attestDeviceIds", "INVALID_ARGUMENT", NoKey, 0, <<>>))
    ELSE IF ~svc \/ ~perm
    THEN Return(Call("attestDeviceIds", "CANNOT_ATTEST_IDS", NoKey, 0, <<>>))
    ELSE IF ~isOk(upd) THEN Return(Call("attestDeviceIds", upd, NoKey, 0, <<>>))
    ELSE Return(Call("attestDeviceIds", attestDeviceIds_calls(gen, att, del).rc, NoKey, 0,
                     attestDeviceIds_calls(gen, att, del).trace))

\* the parameters of the attestations, with and without a device id and a
\* tag no client may pass
AttestParamSets ==
    {{}, {"ATTESTATION_ID_SERIAL"}, {"ATTESTATION_ID_IMEI", "ATTESTATION_ID_BRAND"},
     {"AUTH_TOKEN"}, {"ATTESTATION_ID_MEID", "AUTH_TOKEN"}}

NextAttest ==
    \/ /\ UNCHANGED auxVars
       /\ \E ps \in OpKeyParamSets, f \in {{}, {"ENCRYPTED"}} :
             GenerateKey(AID_SYSTEM, UID_SELF, "k", ps, f, GoodEnv)
    \/ /\ UNCHANGED auxVars
       /\ OnUserPasswordChanged(FALSE, GoodEnv)
    \/ /\ UNCHANGED auxVars
       /\ Lock(GoodEnv)
    \/ /\ UNCHANGED auxVars
       /\ \E p \in AttestParamSets, upd \in {"NO_ERROR", "ATTESTATION_APPLICATION_ID_MISSING"},
             att \in {"OK", "ERR", "HIDL"} :
             AttestKey(AID_SYSTEM, "k", p, upd, att)
    \/ /\ UNCHANGED auxVars
       /\ \E p \in AttestParamSets, gen \in {"OK", "ERR", "HIDL"},
             att \in {"OK", "ERR", "HIDL"}, del \in {"OK", "ERR", "HIDL"} :
             AttestDeviceIds(AID_SYSTEM, p, TRUE, TRUE, "NO_ERROR", gen, att, del)
    \/ /\ UNCHANGED auxVars
       /\ \E p \in AttestParamSets, svc \in BOOLEAN, perm \in BOOLEAN,
             upd \in {"NO_ERROR", "ATTESTATION_APPLICATION_ID_MISSING"} :
             AttestDeviceIds(AID_SYSTEM, p, svc, perm, upd, "OK", "OK", "OK")

SpecAttest == Init /\ [][NextAttest]_vars

(* ------------------------------------------------------------------ *)
(* The entry points that manage users and keys, called while an       *)
(* operation is under way                                             *)
(* ------------------------------------------------------------------ *)
\* every request is permitted and every collaborator succeeds
FrameEnv == [EntryEnv EXCEPT !.perm = {TRUE}]

NextFrame ==
    \/ \E f \in {{}, {"ENCRYPTED"}} :
          Plain(GenerateKey(AID_SYSTEM, UID_SELF, "k", {"NO_AUTH_REQUIRED"}, f, FrameEnv))
    \/ Plain(ImportKey(AID_SYSTEM, UID_SELF, "k", {"NO_AUTH_REQUIRED"}, {}, FrameEnv))
    \/ /\ blobs[<<AppUid, "k">>].type # "KEYMASTER_10"
       /\ Plain(Insert(AppUid, UID_SELF, "k", {}, FrameEnv))
    \/ Plain(Del(AID_SYSTEM, UID_SELF, "k", FrameEnv))
    \/ Called(outerCall' = NoOuter /\ Clear_uid(AID_SYSTEM, AppUid, FrameEnv))
    \/ Plain(Reset(FrameEnv))
    \/ \E e \in BOOLEAN : Plain(OnUserPasswordChanged(e, FrameEnv))
    \/ \E p \in BOOLEAN : Plain(OnUserAdded(p, FrameEnv))
    \/ Plain(OnUserRemoved(FrameEnv))
    \/ Plain(Lock(FrameEnv))
    \/ \E ok \in BOOLEAN : Plain(Unlock(ok, FrameEnv))
    \/ \E valid \in BOOLEAN : Plain(AddAuthToken(0, valid, FrameEnv))
    \/ /\ Plain(Begin(AID_SYSTEM, UID_SELF, "k", TRUE, {}, FALSE, FrameEnv))
       /\ nextToken' <= MaxLockOps + 1
    \/ \E t \in 1..MaxLockOps : Plain(Update(t, {}, FrameEnv))
    \/ \E t \in 1..MaxLockOps : Plain(Finish(t, {}, FALSE, FrameEnv))
    \/ \E t \in 1..MaxLockOps : Plain(Abort(t, FrameEnv))
    \/ \E who \in Uids : Plain(BinderDied(who))

SpecFrame == Init /\ [][NextFrame]_vars

(* ------------------------------------------------------------------ *)
(* getOperationCharacteristics                                        *)
(* ------------------------------------------------------------------ *)
\* lines 1858-1877: the loop over the parameters, a sequence of tags with
\* their values, and the two byte strings passed to the keymaster; the local
\* appData is never assigned and never passed
getOperationCharacteristics(params) ==
    LET appId[n \in 0..Len(params)] ==
            IF n = 0 THEN <<>>
            ELSE IF params[n].tag \in {"APPLICATION_ID", "APPLICATION_DATA"}
            THEN params[n].value
            ELSE appId[n - 1]
    IN [clientId |-> appId[Len(params)], appData |-> appId[Len(params)]]

\* begin, lines 1194-1211, up to its first call of getOperationCharacteristics
GetOperationCharacteristics(callingUid, name, params, E) ==
    LET key == <<callingUid, name>>
        r == getKeyForName(blobs, userState, key)
        rc == begin_keyForNameCode(r.rc, r.blob)
        a == getOperationCharacteristics(params)
    IN
    IF ~isOk(rc) THEN Return(Call("getOperationCharacteristics", rc, key, 0, <<"get">>))
    ELSE \E c \in E.kmChar :
      Return([Call("getOperationCharacteristics", KmCode(c), key, 0,
                   <<"get", "getKeyCharacteristics">>)
                 EXCEPT !.clientId = a.clientId, !.appData = a.appData])

\* the parameters of the operation: up to three parameters with different
\* tags, among them the two that bind a key to its application
OperationParams ==
    LET P == [tag : {"APPLICATION_ID", "APPLICATION_DATA", "NONCE"},
              value : {<<1>>, <<2>>, <<1, 2>>}]
    IN {<<>>} \cup {<<p>> : p \in P}
       \cup {s \in {<<p, q>> : p \in P, q \in P} : s[1].tag # s[2].tag}

NextOperationChars ==
    \/ /\ UNCHANGED auxVars
       /\ \E ps \in OpKeyParamSets, f \in {{}, {"ENCRYPTED"}} :
             GenerateKey(AID_SYSTEM, UID_SELF, "k", ps, f, GoodEnv)
    \/ /\ UNCHANGED auxVars
       /\ OnUserPasswordChanged(FALSE, GoodEnv)
    \/ /\ UNCHANGED auxVars
       /\ Lock(GoodEnv)
    \/ /\ UNCHANGED auxVars
       /\ \E p \in OperationParams :
             GetOperationCharacteristics(AID_SYSTEM, "k", p,
                                         [GoodEnv EXCEPT !.kmChar = {"OK", "ERR", "HIDL"}])

SpecOperationChars == Init /\ [][NextOperationChars]_vars

(* ------------------------------------------------------------------ *)
(* The legacy generate for keys of every type and size                *)
(* ------------------------------------------------------------------ *)
\* <<key type, key size>> of the generate calls: the default, and the sizes
\* at and next to the bounds of each key type
GenerateInputs ==
    {"EC", "RSA", "DSA"} \X
    {-2147483647, -2, -1, 0, 223, 224, 225, 256, 511, 512, 513, 520, 521, 522,
     2048, 4095, 4096, 4097, 2147483647}

NextGenerate ==
    \/ \E f \in {{}, {"ENCRYPTED"}}, n \in Aliases, i \in GenerateInputs :
          Called(UNCHANGED grants /\ Generate(AppUid, UID_SELF, n, i[1], i[2], f, LegacyEnv))
    \/ Plain(OnUserPasswordChanged(FALSE, GoodEnv))

SpecGenerate == Init /\ [][NextGenerate]_vars

(* ------------------------------------------------------------------ *)
(* The four entry points that write a blob, in every user state       *)
(* ------------------------------------------------------------------ *)
\* the oracle grants or denies P_INSERT and P_GEN_UNIQUE_ID, the keymaster
\* makes the key or refuses, and the blob is written or not
CreateEnv ==
    [GoodEnv EXCEPT !.perm = BOOLEAN, !.uniq = BOOLEAN,
                    !.km = {"OK", "ERR"}, !.put = BOOLEAN]

CreateParamSets == {{"NO_AUTH_REQUIRED"}, {"NO_AUTH_REQUIRED", "INCLUDE_UNIQUE_ID"}}

\* insert and generate by the app for itself, generateKey and importKey by
\* the system for itself, all with the flags f
CreateCalls(f, E) ==
    \/ \E n \in Aliases :
          /\ blobs[<<AppUid, n>>].type # "KEYMASTER_10"
          /\ Plain(Insert(AppUid, UID_SELF, n, f, E))
    \/ \E n \in Aliases, keySize \in {-1, 0} :
          /\ blobs[<<AppUid, n>>].type # "GENERIC"
          /\ Called(UNCHANGED grants /\ Generate(AppUid, UID_SELF, n, "EC", keySize, f, E))
    \/ \E n \in Aliases, p \in CreateParamSets :
          Plain(GenerateKey(AID_SYSTEM, UID_SELF, n, p, f, E))
    \/ \E n \in Aliases, p \in CreateParamSets :
          Plain(ImportKey(AID_SYSTEM, UID_SELF, n, p, f, E))

NextCreate ==
    \/ \E f \in {{}, {"ENCRYPTED"}} : CreateCalls(f, CreateEnv)
    \/ \E emptyPassword \in BOOLEAN : Plain(OnUserPasswordChanged(emptyPassword, GoodEnv))
    \/ Plain(Lock(GoodEnv))
    \/ \E pwOk \in BOOLEAN : Plain(Unlock(pwOk, GoodEnv))

SpecCreate == Init /\ [][NextCreate]_vars

(* ------------------------------------------------------------------ *)
(* The entry points that call a keymaster device for a key            *)
(* ------------------------------------------------------------------ *)
\* the primary and the fallback device answer, refuse or cannot be reached,
\* there is a fallback device or not, a blob is written and deleted or not,
\* and the keymaster may demand an upgrade of the key blob
DeviceEnv ==
    [GoodEnv EXCEPT !.km = {"OK", "ERR", "HIDL"}, !.fbkm = {"OK", "ERR", "HIDL"},
                    !.fallback = BOOLEAN, !.put = BOOLEAN, !.del = BOOLEAN,
                    !.kmChar = {"OK", "KEY_REQUIRES_UPGRADE", "ERR", "HIDL"}]

\* the keys made: <<params, flags>>, a plain key, an authentication-bound
\* encrypted key and a key critical to device encryption
DeviceKeys ==
    {<<{"NO_AUTH_REQUIRED"}, {}>>, <<{}, {"ENCRYPTED"}>>, <<{"NO_AUTH_REQUIRED"}, {"CRITICAL"}>>}

\* the system makes, reads, exports and uses its key "k"
NextDevice ==
    \/ /\ UNCHANGED auxVars
       /\ \E i \in DeviceKeys : GenerateKey(AID_SYSTEM, UID_SELF, "k", i[1], i[2], DeviceEnv)
    \/ /\ UNCHANGED auxVars
       /\ \E i \in DeviceKeys : ImportKey(AID_SYSTEM, UID_SELF, "k", i[1], i[2], DeviceEnv)
    \/ /\ UNCHANGED auxVars
       /\ GetKeyCharacteristics(AID_SYSTEM, UID_SELF, "k", DeviceEnv)
    \/ /\ UNCHANGED auxVars
       /\ ExportKey(AID_SYSTEM, UID_SELF, "k", DeviceEnv)
    \/ /\ UNCHANGED auxVars
       /\ CanBegin
       /\ Begin(AID_SYSTEM, AID_SYSTEM, "k", TRUE, {}, FALSE, DeviceEnv)
    \/ /\ UNCHANGED auxVars
       /\ OnUserPasswordChanged(FALSE, GoodEnv)

SpecDevice == Init /\ [][NextDevice]_vars

(* ------------------------------------------------------------------ *)
(* The entry points on concurrent worker threads                      *)
(*                                                                    *)
(* Each call runs on its own worker; a call of an OperationMap or      *)
(* AuthTokenTable method and a call of the keymaster device is one     *)
(* step, and the steps of different workers interleave.  The callers   *)
(* are permitted, the key needs no authorization, the keymaster        *)
(* accepts.                                                            *)
(* ------------------------------------------------------------------ *)
ThreadStep(w, wk, o, a, n, km) ==
    /\ workers' = [workers EXCEPT ![w] = wk]
    /\ ops' = o
    /\ authTable' = a
    /\ nextToken' = n
    /\ kmCalls' = km
    /\ UNCHANGED <<userState, blobs, chars, lastCall, cancelled, legacyVars>>

called(km, handle, call) == [km EXCEPT ![handle] = Append(@, call)]

\* abort(token) has returned: binderDied goes on to its next token, begin
\* retries dev->begin, abort returns to the client
abortReturned(wk) ==
    IF wk.todo # <<>>
    THEN [wk EXCEPT !.pc = "abort_getOperation", !.tok = Head(wk.todo),
                    !.handle = 0, !.todo = Tail(wk.todo)]
    ELSE IF wk.kind = "begin" THEN [wk EXCEPT !.pc = "begin_retry", !.tok = 0, !.handle = 0]
    ELSE Idle

\* begin, lines 1310-1353: dev->begin answered with a handle, addOperation
thread_addOperation(w) ==
    ThreadStep(w, Idle,
               Append(ops, [token |-> nextToken, handle |-> nextToken, pruneable |-> TRUE,
                            binder |-> AID_SYSTEM, authTok |-> FALSE,
                            chars |-> {"NO_AUTH_REQUIRED"}]),
               authTable, nextToken + 1, Append(kmCalls, <<"begin">>))

\* begin of a pruneable operation: the keymaster accepts, or it answers
\* TOO_MANY_OPERATIONS and pruneOperation aborts the oldest pruneable one
thread_begin(w) ==
    /\ workers[w].pc = "idle"
    /\ blobs[TheKey].present
    /\ nextToken <= MaxThreadOps
    /\ \/ thread_addOperation(w)
       \/ /\ hasPruneableOperation(ops)
          /\ ThreadStep(w, [Idle EXCEPT !.pc = "abort_getOperation", !.kind = "begin",
                                        !.tok = getOldestPruneableOperation(ops)],
                        ops, authTable, nextToken, kmCalls)

thread_begin_retry(w) ==
    /\ workers[w].pc = "begin_retry"
    /\ thread_addOperation(w)

\* update, lines 1367-1370: getOperation
thread_update(w, token) ==
    /\ workers[w].pc = "idle"
    /\ hasOperation(ops, token)
    /\ Len(kmCalls[getOperation(ops, token).handle]) < MaxCalls
    /\ ThreadStep(w, [Idle EXCEPT !.pc = "update_dev", !.kind = "update", !.tok = token,
                                  !.handle = getOperation(ops, token).handle],
                  ops, authTable, nextToken, kmCalls)

\* update, lines 1399-1400: dev->update(handle, ...)
thread_update_dev(w) ==
    /\ workers[w].pc = "update_dev"
    /\ ThreadStep(w, Idle, ops, authTable, nextToken,
                  called(kmCalls, workers[w].handle, "update"))

\* finish, lines 1421-1424: getOperation
thread_finish(w, token) ==
    /\ workers[w].pc = "idle"
    /\ hasOperation(ops, token)
    /\ ThreadStep(w, [Idle EXCEPT !.pc = "finish_dev", !.kind = "finish", !.tok = token,
                                  !.handle = getOperation(ops, token).handle],
                  ops, authTable, nextToken, kmCalls)

\* finish, lines 1458-1460: dev->finish(handle, ...)
thread_finish_dev(w) ==
    /\ workers[w].pc = "finish_dev"
    /\ ThreadStep(w, [workers[w] EXCEPT !.pc = "finish_removeOperation"],
                  ops, authTable, nextToken, called(kmCalls, workers[w].handle, "finish"))

\* finish, lines 1461-1463: removeOperation, MarkCompleted
thread_finish_removeOperation(w) ==
    /\ workers[w].pc = "finish_removeOperation"
    /\ ThreadStep(w, Idle, removeOperation(ops, workers[w].tok),
                  MarkCompleted(authTable, workers[w].handle), nextToken, kmCalls)

\* abort called by a client
thread_abort(w, token) ==
    /\ workers[w].pc = "idle"
    /\ ThreadStep(w, [Idle EXCEPT !.pc = "abort_getOperation", !.kind = "abort",
                                  !.tok = token],
                  ops, authTable, nextToken, kmCalls)

\* binderDied, line 137: getOperationsForToken; then abort on each token
thread_binderDied(w, who) ==
    LET toks == [i \in 1..Len(getOperationsForToken(ops, who)) |->
                    getOperationsForToken(ops, who)[i].token]
    IN
    /\ workers[w].pc = "idle"
    /\ toks # <<>>
    /\ ThreadStep(w, [Idle EXCEPT !.pc = "abort_getOperation", !.kind = "binderDied",
                                  !.tok = Head(toks), !.todo = Tail(toks)],
                  ops, authTable, nextToken, kmCalls)

\* abort, lines 1478-1482: getOperation
thread_abort_getOperation(w) ==
    /\ workers[w].pc = "abort_getOperation"
    /\ IF hasOperation(ops, workers[w].tok)
       THEN ThreadStep(w, [workers[w] EXCEPT !.pc = "abort_removeOperation",
                                             !.handle = getOperation(ops, workers[w].tok).handle],
                       ops, authTable, nextToken, kmCalls)
       ELSE ThreadStep(w, abortReturned(workers[w]), ops, authTable, nextToken, kmCalls)

\* abort, line 1483: removeOperation
thread_abort_removeOperation(w) ==
    /\ workers[w].pc = "abort_removeOperation"
    /\ ThreadStep(w, [workers[w] EXCEPT !.pc = "abort_dev"],
                  removeOperation(ops, workers[w].tok), authTable, nextToken, kmCalls)

\* abort, lines 1485-1486: dev->abort(handle), MarkCompleted
thread_abort_dev(w) ==
    /\ workers[w].pc = "abort_dev"
    /\ ThreadStep(w, abortReturned(workers[w]), ops,
                  MarkCompleted(authTable, workers[w].handle), nextToken,
                  called(kmCalls, workers[w].handle, "abort"))

NextThreads ==
    \/ /\ UNCHANGED auxVars
       /\ ~blobs[TheKey].present
       /\ GenerateKey(AID_SYSTEM, UID_SELF, "k", {"NO_AUTH_REQUIRED"}, {}, GoodEnv)
    \/ \E w \in Workers : thread_begin(w)
    \/ \E w \in Workers : thread_begin_retry(w)
    \/ \E w \in Workers, t \in 1..MaxThreadOps : thread_update(w, t)
    \/ \E w \in Workers : thread_update_dev(w)
    \/ \E w \in Workers, t \in 1..MaxThreadOps : thread_finish(w, t)
    \/ \E w \in Workers : thread_finish_dev(w)
    \/ \E w \in Workers : thread_finish_removeOperation(w)
    \/ \E w \in Workers, t \in 1..MaxThreadOps : thread_abort(w, t)
    \/ \E w \in Workers : thread_binderDied(w, AID_SYSTEM)
    \/ \E w \in Workers : thread_abort_getOperation(w)
    \/ \E w \in Workers : thread_abort_removeOperation(w)
    \/ \E w \in Workers : thread_abort_dev(w)

SpecThreads == Init /\ [][NextThreads]_vars

(* ------------------------------------------------------------------ *)
(* Claims on the operation pool                                       *)
(* ------------------------------------------------------------------ *)
\* C1: in every reachable state the number of registered operations is at
\* most kMaxOperations
C1_BoundedOperations == Len(ops) <= kMaxOperations

\* C2: no begin, whether it prunes because the map is full or because the
\* keymaster reports TOO_MANY_OPERATIONS, removes or aborts an operation that
\* was registered as non-pruneable
C2_PruningPreservesNonPruneable ==
    [][lastCall'.op = "begin" =>
          \A i \in 1..Len(ops) :
             ~ops[i].pruneable =>
                /\ hasOperation(ops', ops[i].token)
                /\ \A j \in 1..Len(lastCall'.aborted) : lastCall'.aborted[j] # ops[i].handle]_vars

\* a begin has pruned twice, once for the full map and once for the keymaster,
\* while an older non-pruneable operation stayed registered
C2_Witness ==
    /\ lastCall.op = "begin"
    /\ Len(lastCall.aborted) = 2
    /\ \E i \in 1..Len(ops) : ~ops[i].pruneable /\ ops[i].handle < lastCall.aborted[1]

\* C3: with kMaxOperations pruneable operations registered, a pruneable begin
\* that the keymaster accepts aborts and removes exactly the operation begun
\* first and registers the new one; a removed token is never registered again
\* and an update on it returns INVALID_OPERATION_HANDLE
C3_OldestPruneableEvicted ==
    [][/\ ( /\ Len(ops) = kMaxOperations
            /\ \A i \in 1..Len(ops) : ops[i].pruneable
            /\ Begin(AID_SYSTEM, AID_SYSTEM, "k", TRUE, {}, FALSE, GoodEnv) )
          => /\ \A i \in 1..Len(ops) : ops[1].token <= ops[i].token
             /\ lastCall'.aborted = <<ops[1].handle>>
             /\ ~hasOperation(ops', ops[1].token)
             /\ Len(ops') = kMaxOperations
             /\ \A i \in 1..(kMaxOperations - 1) : ops'[i] = ops[i + 1]
             /\ ops'[kMaxOperations].token = lastCall'.tok
             /\ lastCall'.tok = nextToken
       /\ \A t \in 1..(nextToken - 1) : ~hasOperation(ops, t) => ~hasOperation(ops', t)
       /\ (lastCall'.op = "update" /\ ~hasOperation(ops, lastCall'.tok))
          => lastCall'.rc = "INVALID_OPERATION_HANDLE"]_vars

\* a1 was evicted by the 16th begin and an update on its token was refused
C3_Witness ==
    /\ lastCall.op = "update"
    /\ lastCall.tok = 1
    /\ lastCall.rc = "INVALID_OPERATION_HANDLE"
    /\ Len(ops) = kMaxOperations
    /\ \A i \in 1..Len(ops) : ops[i].pruneable /\ ops[i].token = i + 1

\* C4 as stated: with kMaxOperations pruneable operations registered, a
\* non-pruneable begin of the system succeeds and evicts no operation
C4_NonPruneableEvictsNothing ==
    [][( /\ Len(ops) = kMaxOperations
         /\ \A i \in 1..Len(ops) : ops[i].pruneable
         /\ Begin(AID_SYSTEM, AID_SYSTEM, "k", FALSE, {}, FALSE, GoodEnv) )
       => /\ lastCall'.rc = "NO_ERROR"
          /\ lastCall'.aborted = <<>>
          /\ \A i \in 1..Len(ops) : hasOperation(ops', ops[i].token)]_vars

\* C4 amended: with kMaxOperations pruneable operations registered, a
\* non-pruneable begin of the system succeeds and evicts exactly the pruneable
\* operation begun first; with one non-pruneable operation among
\* kMaxOperations, a pruneable begin evicts the pruneable operation begun
\* first and keeps the non-pruneable one
C4_NonPruneableEvictsOldest ==
    [][/\ ( /\ Len(ops) = kMaxOperations
            /\ \A i \in 1..Len(ops) : ops[i].pruneable
            /\ Begin(AID_SYSTEM, AID_SYSTEM, "k", FALSE, {}, FALSE, GoodEnv) )
          => /\ lastCall'.rc = "NO_ERROR"
             /\ lastCall'.aborted = <<ops[1].handle>>
             /\ Len(ops') = kMaxOperations
             /\ \A i \in 1..(kMaxOperations - 1) : ops'[i] = ops[i + 1]
             /\ ops'[kMaxOperations].token = lastCall'.tok
             /\ ~ops'[kMaxOperations].pruneable
       /\ ( /\ Len(ops) = kMaxOperations
            /\ Cardinality({i \in 1..Len(ops) : ~ops[i].pruneable}) = 1
            /\ Begin(AID_SYSTEM, AID_SYSTEM, "k", TRUE, {}, FALSE, GoodEnv) )
          => /\ lastCall'.rc = "NO_ERROR"
             /\ Len(lastCall'.aborted) = 1
             /\ \E i \in 1..Len(ops) :
                   /\ ops[i].pruneable
                   /\ ops[i].handle = lastCall'.aborted[1]
                   /\ \A j \in 1..(i - 1) : ~ops[j].pruneable
             /\ \A i \in 1..Len(ops) : ~ops[i].pruneable => hasOperation(ops', ops[i].token)
             /\ Len(ops') = kMaxOperations]_vars

\* the 17th begin, a pruneable one, has evicted a pruneable operation and
\* left the non-pruneable 16th registered
C4_Witness ==
    /\ lastCall.op = "begin"
    /\ lastCall.tok = MaxTokens
    /\ lastCall.aborted = <<2>>
    /\ Len(ops) = kMaxOperations
    /\ \A i \in 1..Len(ops) : ops[i].token = i + 2 /\ (ops[i].pruneable <=> i # kMaxOperations - 1)

\* C5: a non-pruneable begin of a caller that is granted to act for the
\* target uid but is not the system returns PERMISSION_DENIED, reads no blob,
\* calls no keymaster and registers nothing
C5_NonSystemNonPruneableDenied ==
    [][Begin(AppUid, AID_SYSTEM, "k", FALSE, {}, FALSE, GoodEnv)
       => /\ lastCall'.op = "begin"
          /\ lastCall'.rc = "PERMISSION_DENIED"
          /\ lastCall'.tok = 0
          /\ lastCall'.trace = <<>>
          /\ lastCall'.aborted = <<>>
          /\ UNCHANGED <<userState, blobs, chars, ops, nextToken, authTable>>]_vars

\* the app was refused while kMaxOperations operations were registered
C5_Witness ==
    /\ lastCall.op = "begin"
    /\ lastCall.rc = "PERMISSION_DENIED"
    /\ lastCall.trace = <<>>
    /\ Len(ops) = kMaxOperations

(* ------------------------------------------------------------------ *)
(* Claims on the key store                                            *)
(* ------------------------------------------------------------------ *)
\* C6: every stored key blob, written by generateKey or importKey on the
\* primary or the fallback path or rewritten by upgradeKeyBlob, is
\* super-encrypted exactly if its creation parameters lack NO_AUTH_REQUIRED
\* and it is not critical to device encryption
C6_SuperEncryptedDerivation ==
    \A k \in Keys :
       blobs[k].present =>
          (blobs[k].super <=> (isAuthenticationBound(blobs[k].params) /\ ~blobs[k].critical))

\* an authentication-bound critical key made by the fallback keymaster was
\* upgraded and is not super-encrypted
C6_Witness ==
    /\ lastCall.op = "getKeyCharacteristics"
    /\ lastCall.rc = "NO_ERROR"
    /\ \E i \in 1..Len(lastCall.trace) : lastCall.trace[i] = "upgradeKey"
    /\ blobs[TheKey].present
    /\ blobs[TheKey].fallback
    /\ blobs[TheKey].critical
    /\ isAuthenticationBound(blobs[TheKey].params)
    /\ ~blobs[TheKey].super

\* C8: when generateKey or importKey has returned NO_ERROR, the key blob and
\* the characteristics blob both exist and carry the same Encrypted and
\* Fallback flags
C8_SiblingsAfterCreate ==
    (lastCall.op \in {"generateKey", "importKey"} /\ lastCall.rc = "NO_ERROR") =>
        /\ blobs[lastCall.key].present
        /\ chars[lastCall.key].present
        /\ chars[lastCall.key].enc = blobs[lastCall.key].enc
        /\ chars[lastCall.key].fallback = blobs[lastCall.key].fallback

\* importKey succeeded on the fallback path for an encrypted key
C8_Witness ==
    /\ lastCall.op = "importKey"
    /\ lastCall.rc = "NO_ERROR"
    /\ blobs[lastCall.key].present
    /\ blobs[lastCall.key].enc
    /\ blobs[lastCall.key].fallback
    /\ chars[lastCall.key].present

\* C9: after del has returned NO_ERROR neither blob exists; a permitted del
\* of an alias without a key blob returns KEY_NOT_FOUND and changes nothing
C9_DelRemovesBoth ==
    [][/\ (lastCall'.op = "del" /\ lastCall'.rc = "NO_ERROR")
          => (~blobs'[lastCall'.key].present /\ ~chars'[lastCall'.key].present)
       /\ ( /\ ~blobs[TheKey].present
            /\ Del(AppUid, AID_SYSTEM, "k", [FullEnv EXCEPT !.perm = {TRUE}]) )
          => /\ lastCall'.rc = "KEY_NOT_FOUND"
             /\ UNCHANGED <<userState, blobs, chars, ops, nextToken, authTable>>]_vars

\* del removed a key blob and its characteristics blob
C9_Witness ==
    /\ lastCall.op = "del"
    /\ lastCall.rc = "NO_ERROR"
    /\ lastCall.trace = <<"del", "del">>
    /\ ~blobs[lastCall.key].present
    /\ ~chars[lastCall.key].present

(* ------------------------------------------------------------------ *)
(* Claims on operations                                               *)
(* ------------------------------------------------------------------ *)
\* C7 as stated: a permitted begin on a key whose creation parameters lack
\* NO_AUTH_REQUIRED, issued while the user is locked, returns
\* KEY_USER_NOT_AUTHENTICATED and registers no operation, also when every
\* collaborator of begin answers with success
C7_AuthBoundLockedGated ==
    [][( /\ userState = "LOCKED"
         /\ blobs[TheKey].present
         /\ isAuthenticationBound(blobs[TheKey].params)
         /\ Begin(AID_SYSTEM, AID_SYSTEM, "k", TRUE, {}, FALSE, GoodEnv) )
       => /\ lastCall'.rc = "KEY_USER_NOT_AUTHENTICATED"
          /\ ops' = ops]_vars

\* C7 amended: a permitted begin issued while the user is locked returns
\* KEY_USER_NOT_AUTHENTICATED on a super-encrypted key (one that is
\* authentication-bound and not critical to device encryption) and LOCKED on
\* an encrypted key that is not super-encrypted, whatever the auth token
\* table holds; it reads the blob and nothing else, and registers nothing
C7_SuperEncryptedLockedGated ==
    [][( /\ userState = "LOCKED"
         /\ blobs[TheKey].present
         /\ blobs[TheKey].super \/ blobs[TheKey].enc
         /\ Begin(AID_SYSTEM, AID_SYSTEM, "k", TRUE, {}, FALSE, [OpEnv EXCEPT !.perm = {TRUE}]) )
       => /\ lastCall'.rc = IF blobs[TheKey].super THEN "KEY_USER_NOT_AUTHENTICATED"
                            ELSE "LOCKED"
          /\ lastCall'.trace = <<"get">>
          /\ UNCHANGED <<userState, blobs, chars, ops, nextToken, authTable>>]_vars

\* a begin on a super-encrypted key was refused while the user was locked
\* and the auth token table held a token
C7_Witness ==
    /\ userState = "LOCKED"
    /\ lastCall.op = "begin"
    /\ lastCall.rc = "KEY_USER_NOT_AUTHENTICATED"
    /\ lastCall.trace = <<"get">>
    /\ blobs[TheKey].super
    /\ authTable # {}

\* C10: when update or finish returns an error for a token that was
\* registered when the call started, the operation is no longer registered
C10_FailureRemovesOperation ==
    [][( /\ lastCall'.op \in {"update", "finish"}
         /\ hasOperation(ops, lastCall'.tok)
         /\ lastCall'.rc # "NO_ERROR" )
       => ~hasOperation(ops', lastCall'.tok)]_vars

(* ------------------------------------------------------------------ *)
(* Claims on the parameters and the order of the calls of an operation *)
(* ------------------------------------------------------------------ *)
\* the begin, update and finish calls of NextOp whose parameters hold a tag
\* of RestrictedTags, with the permission answers of E
C11_RestrictedCall(E) ==
    \/ /\ lastCall'.op = "begin"
       /\ \E i \in OpBegins :
             /\ i[3] \cap RestrictedTags # {}
             /\ Begin(i[1], AID_SYSTEM, "k", i[2], i[3], i[4], E)
    \/ /\ lastCall'.op = "update"
       /\ \E t \in 1..MaxOps, q \in OpParams :
             q \cap RestrictedTags # {} /\ Update(t, q, E)
    \/ /\ lastCall'.op = "finish"
       /\ \E t \in 1..MaxOps, i \in OpSteps :
             i[1] \cap RestrictedTags # {} /\ Finish(t, i[1], i[2], E)

\* the call returned INVALID_ARGUMENT, made no keymaster call and changed
\* neither the OperationMap, the AuthTokenTable nor the blob store
C11_RejectedUntouched ==
    /\ lastCall'.rc = "INVALID_ARGUMENT"
    /\ lastCall'.trace = <<>>
    /\ UNCHANGED <<userState, blobs, chars, ops, nextToken, authTable>>

CallShape(calls) ==
    /\ calls[1] = "begin"
    /\ \A i \in 2..Len(calls) : calls[i] \in {"update", "finish", "abort"}
    /\ \A i \in 2..(Len(calls) - 1) : calls[i] = "update"

\* C12: under every interleaving of update, finish, abort, begin's pruning
\* and binderDied on concurrent workers, the keymaster calls dispatched for
\* each operation handle are begin, any number of updates, and then at most
\* one finish or abort, after which nothing is dispatched for the handle
C12_CallOrderPerHandle == \A h \in 1..Len(kmCalls) : CallShape(kmCalls[h])

(* ------------------------------------------------------------------ *)
(* Claims on cancellation                                             *)
(* ------------------------------------------------------------------ *)
\* the token was cancelled by abort, by pruneOperation or by binderDied
C13_IsCancelled(t) == \E c \in cancelled : c[1] = t

\* the call returned INVALID_OPERATION_HANDLE without a keymaster call and
\* without a change
C13_InvalidHandle ==
    /\ lastCall'.rc = "INVALID_OPERATION_HANDLE"
    /\ lastCall'.trace = <<>>
    /\ UNCHANGED <<userState, blobs, chars, ops, nextToken, authTable, cancelled>>

\* C13 as stated: once a token was cancelled by abort, by pruning or by
\* binderDied, every later abort, update and finish on it returns
\* INVALID_OPERATION_HANDLE and makes no keymaster call
C13_CancelledTokenInvalid ==
    [][\A t \in 1..MaxOps :
          ( /\ C13_IsCancelled(t)
            /\ \/ Abort(t, OpEnv)
               \/ \E q \in OpParams : Update(t, q, OpEnv)
               \/ \E i \in OpSteps : Finish(t, i[1], i[2], OpEnv) )
          => C13_InvalidHandle]_vars

\* C13: once a token was cancelled by abort, by pruning or by binderDied,
\* every later abort, and every later update and finish whose parameters hold
\* no restricted tag, returns INVALID_OPERATION_HANDLE and makes no keymaster
\* call; an update or finish with a restricted tag returns INVALID_ARGUMENT,
\* also without a keymaster call
C13_CancelledTokenInvalidOrArgument ==
    [][\A t \in 1..MaxOps :
          /\ ( /\ C13_IsCancelled(t)
               /\ \/ Abort(t, OpEnv)
                  \/ \E q \in OpParams : q \cap RestrictedTags = {} /\ Update(t, q, OpEnv)
                  \/ \E i \in OpSteps :
                        i[1] \cap RestrictedTags = {} /\ Finish(t, i[1], i[2], OpEnv) )
             => C13_InvalidHandle
          /\ ( /\ C13_IsCancelled(t)
               /\ \/ \E q \in OpParams : q \cap RestrictedTags # {} /\ Update(t, q, OpEnv)
                  \/ \E i \in OpSteps :
                        i[1] \cap RestrictedTags # {} /\ Finish(t, i[1], i[2], OpEnv) )
             => /\ lastCall'.rc = "INVALID_ARGUMENT"
                /\ lastCall'.trace = <<>>
                /\ UNCHANGED <<ops, authTable>>]_vars

\* a finish was refused on a token that pruning had cancelled, after
\* binderDied had cancelled the other token
C13_Witness ==
    /\ lastCall.op = "finish"
    /\ lastCall.rc = "INVALID_OPERATION_HANDLE"
    /\ <<lastCall.tok, "begin">> \in cancelled
    /\ \E c \in cancelled : c[2] = "binderDied" /\ c[1] # lastCall.tok

\* C14: when binderDied(who) returns, no operation begun with the binder who
\* is registered, dev->abort was called with the handle of each of them and
\* MarkCompleted removed it from the auth token table, and every operation
\* begun with another binder is still registered and was not aborted
C14_BinderDiedAbortsItsOperations ==
    [][\A who \in Uids :
          BinderDied(who) =>
             /\ \A i \in 1..Len(ops) :
                   IF ops[i].binder = who
                   THEN /\ ~hasOperation(ops', ops[i].token)
                        /\ \E j \in 1..Len(lastCall'.aborted) :
                              lastCall'.aborted[j] = ops[i].handle
                        /\ ops[i].handle \notin authTable'
                   ELSE /\ hasOperation(ops', ops[i].token)
                        /\ \A j \in 1..Len(lastCall'.aborted) :
                              lastCall'.aborted[j] # ops[i].handle
             /\ Len(lastCall'.aborted) = Len(getOperationsForToken(ops, who))
             /\ \A i \in 1..Len(ops') : ops'[i].binder # who]_vars

\* binderDied aborted an operation of the dead binder while an operation of
\* another binder, with its auth token in the table, stayed registered
C14_Witness ==
    /\ lastCall.op = "binderDied"
    /\ Len(lastCall.aborted) = 1
    /\ <<lastCall.aborted[1], "binderDied">> \in cancelled
    /\ Len(ops) = 1
    /\ ops[1].handle \in authTable


\* what the entry point called by the client returns
returned(outer, last) == IF outer.op # "" THEN outer.rc ELSE last.rc

\* C15: every entry point that consults the permission oracle, when the
\* oracle denies the caller, returns PERMISSION_DENIED and does no work: the
\* user state, the blobs, the grants, the auth token table and the operation
\* map are unchanged and nothing is called on the keymaster or the blob store.
C15_DenialDoesNothing ==
    [][EntryCalls(DenyEnv) =>
          /\ returned(outerCall', lastCall') = "PERMISSION_DENIED"
          /\ lastCall'.trace = <<>>
          /\ UNCHANGED <<userState, blobs, chars, grants, authTable, ops, nextToken>>]_vars


\* C16: after clear_uid(targetUid) returns NO_ERROR, for every alias listed
\* under the target uid the key blob and its characteristics are deleted,
\* except that under the system app id every blob that is critical to device
\* encryption survives, whatever the lock state of the user; the blobs of the
\* other uids are unchanged.
C16_ClearUidKeepsCritical ==
    [][(lastCall'.op = "clear_uid" /\ lastCall'.rc = "NO_ERROR") =>
          \A k \in Keys :
             IF k[1] # lastCall'.key[1] \/ ~blobs[k].present
             THEN blobs'[k] = blobs[k] /\ chars'[k] = chars[k]
             ELSE IF get_app_id(k[1]) = AID_SYSTEM /\ blobs[k].critical
             THEN blobs'[k] = blobs[k]
             ELSE ~blobs'[k].present /\ ~chars'[k].present]_vars


\* C17: onUserPasswordChanged by a permitted caller dispatches on the
\* password and the state of the user: an empty password resets the user
\* keeping the core (from any state), returns NO_ERROR and leaves the user
\* uninitialized; a password that is not empty initializes an uninitialized
\* user, rewrites the master key of an unlocked user, resets and then
\* initializes a locked user, and always ends unlocked.
C17_PasswordDispatch ==
    [][\A e \in BOOLEAN :
          OnUserPasswordChanged(e, [FullEnv EXCEPT !.perm = {TRUE}]) =>
             /\ lastCall'.rc = "NO_ERROR"
             /\ authTable' = {}
             /\ IF e
                THEN /\ lastCall'.trace = <<"resetUser">>
                     /\ userState' = "UNINITIALIZED"
                     /\ blobs' = resetUserBlobs(blobs, TRUE)
                ELSE /\ userState' = "NO_ERROR"
                     /\ lastCall'.trace =
                           CASE userState = "UNINITIALIZED" -> <<"initializeUser">>
                             [] userState = "NO_ERROR" -> <<"writeMasterKey">>
                             [] userState = "LOCKED" -> <<"resetUser", "initializeUser">>
                     /\ blobs' = IF userState = "LOCKED" THEN resetUserBlobs(blobs, TRUE)
                                 ELSE blobs]_vars

\* a locked user got a new password: the user was reset, a key of the core
\* was kept, and the user is unlocked
C17_Witness ==
    /\ lastCall.op = "onUserPasswordChanged"
    /\ lastCall.trace = <<"resetUser", "initializeUser">>
    /\ userState = "NO_ERROR"
    /\ \E k \in Keys : blobs[k].present


\* C18: a permitted lock changes the user state only when the user is
\* unlocked, to locked, and returns NO_ERROR; a permitted unlock reads the
\* master key only when the user is locked, and the user ends unlocked
\* exactly if the password decrypts it; in every other state the call leaves
\* the user state as it is and returns that state as its response code.
C18_LockUnlockByState ==
    [][/\ Lock([FullEnv EXCEPT !.perm = {TRUE}]) =>
             IF userState = "NO_ERROR"
             THEN /\ userState' = "LOCKED"
                  /\ lastCall'.rc = "NO_ERROR"
                  /\ lastCall'.trace = <<"lock">>
             ELSE /\ userState' = userState
                  /\ lastCall'.rc = userState
                  /\ lastCall'.trace = <<>>
       /\ \A pwOk \in BOOLEAN :
             Unlock(pwOk, [FullEnv EXCEPT !.perm = {TRUE}]) =>
                IF userState = "LOCKED"
                THEN /\ lastCall'.trace = <<"readMasterKey">>
                     /\ userState' = (IF pwOk THEN "NO_ERROR" ELSE "LOCKED")
                     /\ lastCall'.rc = "NO_ERROR" <=> pwOk
                ELSE /\ userState' = userState
                     /\ lastCall'.rc = userState
                     /\ lastCall'.trace = <<>>]_vars

\* lock was called for a user that is locked and has keys, and returned LOCKED
C18_Witness ==
    /\ lastCall.op = "lock"
    /\ lastCall.rc = "LOCKED"
    /\ userState = "LOCKED"
    /\ \E k \in Keys : blobs[k].present

\* C19: insert, generate, generateKey and importKey called by a permitted
\* caller with the Encrypted flag while the user is not unlocked return the
\* user state and write nothing; called without the flag they are never
\* answered with the user state, whatever it is.
C19_EncryptedNeedsUnlocked ==
    [][/\ (userState # "NO_ERROR" /\ CreateCalls({"ENCRYPTED"}, [CreateEnv EXCEPT !.perm = {TRUE}]))
             => /\ returned(outerCall', lastCall') = userState
                /\ lastCall'.trace = <<>>
                /\ UNCHANGED <<userState, blobs, chars>>
       /\ CreateCalls({}, [CreateEnv EXCEPT !.perm = {TRUE}])
             => returned(outerCall', lastCall') \notin {"LOCKED", "UNINITIALIZED"}]_vars

\* importKey with the Encrypted flag was turned away from a locked user
C19_Witness ==
    /\ lastCall.op = "importKey"
    /\ lastCall.rc = "LOCKED"
    /\ lastCall.trace = <<>>
    /\ userState = "LOCKED"

\* C20: generateKey and importKey, called with INCLUDE_UNIQUE_ID among the
\* params by a caller that holds the permission to insert but not the one to
\* generate unique ids, return PERMISSION_DENIED, call no keymaster function
\* and write no blob.
C20_UniqueIdNeedsCapability ==
    [][\A n \in Aliases, f \in {{}, {"ENCRYPTED"}} :
         LET E == [CreateEnv EXCEPT !.perm = {TRUE}, !.uniq = {FALSE}]
             p == {"NO_AUTH_REQUIRED", "INCLUDE_UNIQUE_ID"}
         IN  (/\ isOk(checkBinderPermissionAndKeystoreState(TRUE, "ENCRYPTED" \in f))
              /\ \/ GenerateKey(AID_SYSTEM, UID_SELF, n, p, f, E)
                 \/ ImportKey(AID_SYSTEM, UID_SELF, n, p, f, E))
             => /\ lastCall'.rc = "PERMISSION_DENIED"
                /\ lastCall'.trace = <<>>
                /\ UNCHANGED <<blobs, chars>>]_vars

(* ------------------------------------------------------------------ *)
(* Claims on the fallback device, upgrades and retries                *)
(* ------------------------------------------------------------------ *)
\* the positions of the call named c in the trace t
C21_At(t, c) == {j \in 1..Len(t) : t[j] = c}

\* the generateKey and importKey calls of the system for its key that pass
\* the checks before the device call, with the params p and with the
\* primary device refusing; fb: there is a fallback device
C21_Refused(p, fb) ==
    LET E == [DeviceEnv EXCEPT !.km = {"ERR"}, !.fallback = {fb}]
    IN  \/ /\ lastCall'.op = "generateKey"
           /\ C21_At(lastCall'.trace, "generateKey") # {}
           /\ \E i \in DeviceKeys :
                 i[1] = p /\ GenerateKey(AID_SYSTEM, UID_SELF, "k", p, i[2], E)
        \/ /\ lastCall'.op = "importKey"
           /\ C21_At(lastCall'.trace, "importKey") # {}
           /\ \E i \in DeviceKeys :
                 i[1] = p /\ ImportKey(AID_SYSTEM, UID_SELF, "k", p, i[2], E)

\* C21: generateKey and importKey call the primary device at most once and
\* the fallback device at most once, the fallback only after the primary;
\* when the primary device answers with an error and there is a fallback
\* device, the fallback device is called exactly once, right after, and a
\* blob it makes holds the params of the call; when there is no fallback
\* device the primary's error is returned and no blob is written; and every
\* keymaster blob in the store has its Fallback flag set exactly if the
\* fallback device made it.
C21_SingleFallbackRetry ==
    [][LET t == lastCall'.trace
           X == lastCall'.op
           F == IF X = "generateKey" THEN "fb.generateKey" ELSE "fb.importKey"
       IN
       /\ \A k \in Keys :
             blobs'[k].present /\ blobs'[k].type = "KEYMASTER_10"
                => (blobs'[k].fallback <=> blobs'[k].byFallback)
       /\ X \in {"generateKey", "importKey"} =>
             /\ Cardinality(C21_At(t, X)) <= 1
             /\ Cardinality(C21_At(t, F)) <= 1
             /\ \A j \in C21_At(t, F) : \E h \in C21_At(t, X) : h < j
             /\ blobs' # blobs =>
                   /\ blobs'[lastCall'.key].present
                   /\ blobs'[lastCall'.key].fallback <=> C21_At(t, F) # {}
       /\ \A p \in KeyParamSets :
             /\ C21_Refused(p, TRUE) =>
                   /\ \E h \in C21_At(t, X) : C21_At(t, F) = {h + 1}
                   /\ blobs' # blobs =>
                         /\ blobs'[lastCall'.key].fallback
                         /\ blobs'[lastCall'.key].params = p
             /\ C21_Refused(p, FALSE) =>
                   /\ C21_At(t, F) = {}
                   /\ lastCall'.rc = KmCode("ERR")
                   /\ UNCHANGED <<blobs, chars>>]_vars

\* the primary device refused, the fallback device made the key, and the
\* blob in the store carries the Fallback flag
C21_Witness ==
    /\ lastCall.op \in {"generateKey", "importKey"}
    /\ lastCall.rc = "NO_ERROR"
    /\ \E j \in 1..Len(lastCall.trace) : lastCall.trace[j] \in {"fb.generateKey", "fb.importKey"}
    /\ ~(\E j \in 1..(Len(lastCall.trace) - 1) :
            lastCall.trace[j] \in {"generateKey", "importKey"} /\ lastCall.trace[j + 1] = "put")
    /\ blobs[lastCall.key].present
    /\ blobs[lastCall.key].fallback

\* the trace of a getKeyCharacteristics call whose upgrade succeeded: the read,
\* the device call, the upgrade with its re-read, and the retried device call
C22_UpgradedTrace ==
    <<"get", "getKeyCharacteristics", "get", "upgradeKey", "del", "put", "get",
      "getKeyCharacteristics">>

\* C22: a getKeyCharacteristics call whose upgrade succeeds leaves the
\* upgraded blob readable under the same name; a getKeyCharacteristics call
\* for the same key right after it, to which the keymaster does not answer
\* KEY_REQUIRES_UPGRADE, reads that blob, calls the device once, calls
\* upgradeKey not at all and leaves the blob store as it is.
C22_UpgradeIdempotent ==
    [][/\ (/\ lastCall'.op = "getKeyCharacteristics"
           /\ lastCall'.trace = C22_UpgradedTrace
           /\ GetKeyCharacteristics(AID_SYSTEM, UID_SELF, "k", DeviceEnv))
          => /\ blobs'[TheKey].present
             /\ blobs'[TheKey].upgraded
             /\ isOk(getKeyForName(blobs', userState', TheKey).rc)
       /\ (/\ lastCall.op = "getKeyCharacteristics"
           /\ lastCall.trace = C22_UpgradedTrace
           /\ GetKeyCharacteristics(AID_SYSTEM, UID_SELF, "k",
                  [DeviceEnv EXCEPT !.kmChar = {"OK", "ERR", "HIDL"}]))
          => /\ lastCall'.trace = <<"get", "getKeyCharacteristics">>
             /\ lastCall'.key = lastCall.key
             /\ UNCHANGED <<blobs, chars>>]_vars

\* two getKeyCharacteristics calls in a row: the first upgraded the key, the
\* second found nothing to upgrade and succeeded
C22_Witness ==
    /\ lastCall.op = "getKeyCharacteristics"
    /\ lastCall.rc = "NO_ERROR"
    /\ lastCall.trace = <<"get", "getKeyCharacteristics">>
    /\ blobs[TheKey].present
    /\ blobs[TheKey].upgraded

C24_Calls(E) ==
    \/ /\ lastCall'.op = "getKeyCharacteristics"
       /\ GetKeyCharacteristics(AID_SYSTEM, UID_SELF, "k", E)
    \/ /\ lastCall'.op = "exportKey"
       /\ ExportKey(AID_SYSTEM, UID_SELF, "k", E)
    \/ /\ lastCall'.op = "begin"
       /\ Begin(AID_SYSTEM, AID_SYSTEM, "k", TRUE, {}, FALSE, E)

\* the keymaster demands an upgrade whenever it is asked, and the upgrade
\* itself succeeds
C24_AlwaysDemanding ==
    [DeviceEnv EXCEPT !.kmChar = {"KEY_REQUIRES_UPGRADE"}, !.km = {"OK"},
                      !.del = {TRUE}, !.put = {TRUE}]

\* C24: one call of getKeyCharacteristics, exportKey or begin calls
\* upgradeKey at most once and the device call that was answered with
\* KEY_REQUIRES_UPGRADE at most twice; after a successful upgrade the device
\* call is retried exactly once; and when the retry is answered with
\* KEY_REQUIRES_UPGRADE again, the call returns KEY_REQUIRES_UPGRADE after
\* one upgrade and one retry.
C24_UpgradeOnceRetryOnce ==
    [][LET t == lastCall'.trace
           D == IF lastCall'.op = "exportKey" THEN "exportKey" ELSE "getKeyCharacteristics"
       IN
       /\ lastCall'.op \in {"getKeyCharacteristics", "exportKey", "begin"} =>
             /\ Cardinality(C21_At(t, "upgradeKey")) <= 1
             /\ Cardinality(C21_At(t, D)) <= 2
             /\ (Len(t) >= 7 /\ t[4] = "upgradeKey" /\ t[6] = "put")
                   => C21_At(t, D) = {2, 8}
       /\ (C24_Calls(C24_AlwaysDemanding) /\ C21_At(t, D) # {}) =>
             /\ lastCall'.rc = "KEY_REQUIRES_UPGRADE"
             /\ C21_At(t, "upgradeKey") = {4}
             /\ C21_At(t, D) = {2, 8}
             /\ Len(t) = 8]_vars

(* ------------------------------------------------------------------ *)
(* Claims on begin, update and finish                                 *)
(* ------------------------------------------------------------------ *)
\* the number of pruneable operations in the map o
C25_Pruneable(o) == Cardinality({i \in 1..Len(o) : o[i].pruneable})

\* the begin calls of the begin specification that reach dev->begin, to
\* which the keymaster answers TOO_MANY_OPERATIONS n times and then fin
C25_Begin(n, fin) ==
    /\ lastCall'.op = "begin"
    /\ C21_At(lastCall'.trace, "begin") # {}
    /\ \E pruneable \in BOOLEAN :
          Begin(AID_SYSTEM, AID_SYSTEM, "k", pruneable, {}, FALSE,
                [BeginEnv EXCEPT !.tooMany = {n}, !.kmBegin = {fin}])

C26_Lookup ==
    LET c == getCharsForName(chars, userState, TheKey)
        persisted == IF isOk(c.rc) THEN c.blob.params ELSE {}
    IN  FindAuthorization(authTable, persisted \cup blobs[TheKey].params, 0, BeginEnv)

\* a permitted begin that has read the key, while the table answers err and
\* every later step succeeds
C26_Begin(err) ==
    /\ lastCall'.op = "begin"
    /\ C21_At(lastCall'.trace, "getKeyCharacteristics") # {}
    /\ err \in C26_Lookup
    /\ \E pruneable \in BOOLEAN :
          Begin(AID_SYSTEM, AID_SYSTEM, "k", pruneable, {}, FALSE,
                [GoodEnv EXCEPT !.token = {err}])

\* C26: when the lookup of begin answers OP_HANDLE_REQUIRED and the later
\* steps succeed, dev->begin is called, the operation is registered without
\* an auth token and begin returns OP_AUTH_NEEDED with the token and handle
\* of the operation; when it answers AUTH_TOKEN_NOT_FOUND, AUTH_TOKEN_EXPIRED
\* or AUTH_TOKEN_WRONG_SID, begin returns KEY_USER_NOT_AUTHENTICATED, does
\* not call dev->begin and registers and prunes nothing.
C26_LookupOutcome ==
    [][/\ C26_Begin("OP_HANDLE_REQUIRED") =>
             /\ lastCall'.rc = "OP_AUTH_NEEDED"
             /\ Cardinality(C21_At(lastCall'.trace, "begin")) = 1
             /\ lastCall'.tok = nextToken
             /\ ops' = Append(ops, getOperation(ops', lastCall'.tok))
             /\ hasOperation(ops', lastCall'.tok)
             /\ getOperation(ops', lastCall'.tok).handle = nextToken
             /\ ~getOperation(ops', lastCall'.tok).authTok
       /\ \A err \in {"AUTH_TOKEN_NOT_FOUND", "AUTH_TOKEN_EXPIRED", "AUTH_TOKEN_WRONG_SID"} :
             C26_Begin(err) =>
                /\ lastCall'.rc = "KEY_USER_NOT_AUTHENTICATED"
                /\ lastCall'.tok = 0
                /\ C21_At(lastCall'.trace, "begin") = {}
                /\ lastCall'.aborted = <<>>
                /\ UNCHANGED <<ops, nextToken, authTable, blobs, chars>>]_vars

\* begin has returned OP_AUTH_NEEDED with the token of an operation that is
\* registered without an auth token
C26_Witness ==
    /\ lastCall.op = "begin"
    /\ lastCall.rc = "OP_AUTH_NEEDED"
    /\ hasOperation(ops, lastCall.tok)
    /\ ~getOperation(ops, lastCall.tok).authTok
    /\ C21_At(lastCall.trace, "begin") # {}

\* update or finish of the registered operation t while the auth token
\* table answers a key with a timeout with err and the keymaster with ret
C27_Step(t, err, ret) ==
    /\ lastCall'.op \in {"update", "finish"}
    /\ hasOperation(ops, t)
    /\ LET E == [GoodEnv EXCEPT !.token = {err}, !.km = {ret}] IN
       Update(t, {}, E) \/ Finish(t, {}, FALSE, E)

\* the answer of the auth token table to the lookup for operation t, whose
\* challenge is the keymaster handle of the operation
C27_Lookup(t, err) ==
    FindAuthorization(authTable, getOperation(ops, t).chars, getOperation(ops, t).handle,
                      [GoodEnv EXCEPT !.token = {err}])

\* C27: update and finish of an operation without cached auth token look
\* the token up with the handle of the operation as challenge; a failed
\* lookup is returned and the keymaster is not called; a token found is
\* cached in the operation and passed to the keymaster. With a token cached,
\* update and finish pass it to the keymaster whatever the table holds or
\* would answer, also when the table is empty.
C27_LazyAuthToken ==
    [][\A t \in 1..MaxOps, err \in AuthEnv.token, ret \in AuthEnv.km :
          C27_Step(t, err, ret) =>
             LET op == getOperation(ops, t)
                 found == C27_Lookup(t, err)
                 dispatched == /\ lastCall'.trace = <<lastCall'.op>>
                               /\ lastCall'.authTok
                               /\ lastCall'.rc = KmCode(ret)
                               /\ lastCall'.op = "update" =>
                                     /\ hasOperation(ops', t)
                                     /\ getOperation(ops', t).authTok
             IN
             /\ op.authTok => dispatched
             /\ ~op.authTok /\ found = {"OK"} =>
                   /\ dispatched
                   /\ op.chars = {} => op.handle \in authTable
             /\ ~op.authTok /\ found \cap {"OK", "AUTH_NOT_REQUIRED"} = {} =>
                   /\ lastCall'.rc = "KEY_USER_NOT_AUTHENTICATED"
                   /\ lastCall'.trace = <<>>
                   /\ ~lastCall'.authTok
                   /\ UNCHANGED <<ops, authTable>>]_vars

\* update has passed the cached auth token of an operation that began
\* without one to the keymaster while the auth token table was empty
C27_Witness ==
    /\ lastCall.op = "update"
    /\ lastCall.trace = <<"update">>
    /\ lastCall.authTok
    /\ authTable = {}
    /\ hasOperation(ops, lastCall.tok)
    /\ getOperation(ops, lastCall.tok).chars = {}
    /\ getOperation(ops, lastCall.tok).authTok

(* ------------------------------------------------------------------ *)
(* Claims on getKeyCharacteristics and the legacy entry points        *)
(* ------------------------------------------------------------------ *)
\* C28: when the read of the keymaster blob in getKeyCharacteristics gives
\* UNINITIALIZED, the call reads the characteristics file and nothing else:
\* it calls no keymaster, upgrades and writes nothing, and returns NO_ERROR
\* with the persisted list as software-enforced characteristics and no
\* hardware-enforced ones if the file can be read, and the error of that
\* read, with no characteristics, if it cannot.
C28_UninitializedReadsFile ==
    [][\A n \in Aliases :
          LET key == <<AID_SYSTEM, n>> IN
          /\ lastCall'.op = "getKeyCharacteristics"
          /\ getKeyForName(blobs, userState, key).rc = "UNINITIALIZED"
          /\ GetKeyCharacteristics(AID_SYSTEM, UID_SELF, n, [FullEnv EXCEPT !.perm = {TRUE}])
          => /\ lastCall'.trace = <<"get", "get">>
             /\ UNCHANGED <<blobs, chars, userState>>
             /\ lastCall'.teeEnforced = {}
             /\ IF chars[key].present /\ (chars[key].enc => userState = "NO_ERROR")
                THEN /\ lastCall'.rc = "NO_ERROR"
                     /\ lastCall'.softwareEnforced = chars[key].params
                ELSE /\ lastCall'.rc = IF chars[key].present THEN userState
                                       ELSE "KEY_NOT_FOUND"
                     /\ lastCall'.rc # "NO_ERROR"
                     /\ lastCall'.softwareEnforced = {}]_vars

\* getKeyCharacteristics has returned the persisted characteristics of a
\* super-encrypted key of a user without master key, without keymaster call
C28_Witness ==
    /\ lastCall.op = "getKeyCharacteristics"
    /\ lastCall.rc = "NO_ERROR"
    /\ lastCall.trace = <<"get", "get">>
    /\ userState = "UNINITIALIZED"
    /\ blobs[lastCall.key].super
    /\ lastCall.softwareEnforced = chars[lastCall.key].params
    /\ lastCall.softwareEnforced # {}
    /\ lastCall.teeEnforced = {}

\* the result of the internal call a step of sign or verify made belongs to
\* the keymaster
C29_KeymasterError(rc) ==
    rc \in {"UNKNOWN_ERROR", "KEY_EXPIRED", "KEY_USER_NOT_AUTHENTICATED",
            "KEY_REQUIRES_UPGRADE", "TOO_MANY_OPERATIONS", "INVALID_OPERATION_HANDLE",
            "INVALID_ARGUMENT"}

\* C29: sign and verify return a ResponseCode: PERMISSION_DENIED if the
\* caller is denied; when the internal begin, update or finish fails,
\* SYSTEM_ERROR for an error of the keymaster and the ResponseCode itself
\* otherwise; SYSTEM_ERROR when update succeeds without consuming all input;
\* and NO_ERROR when finish succeeds.
C29_LegacyResultSpace ==
    [][/\ lastCall'.op \in {"sign", "verify"} => lastCall'.rc = "PERMISSION_DENIED"
       /\ outerCall.op \in {"sign", "verify"} /\ outerCall.pc # "" /\ outerCall'.pc = "" =>
             LET rc == lastCall'.rc IN
             /\ lastCall'.op = outerCall.pc
             /\ rc \in ResponseCodes \/ C29_KeymasterError(rc)
             /\ C29_KeymasterError(rc) => outerCall'.rc = "SYSTEM_ERROR"
             /\ rc \in ResponseCodes \ {"NO_ERROR"} => outerCall'.rc = rc
             /\ rc = "NO_ERROR" =>
                   \/ outerCall.pc = "finish" /\ outerCall'.rc = "NO_ERROR"
                   \/ /\ outerCall.pc = "update"
                      /\ doLegacySignVerify_update(FALSE, LegacyEnv)
                      /\ outerCall'.rc = "SYSTEM_ERROR"]_vars

\* sign or verify has returned SYSTEM_ERROR for an error of the keymaster
C29_Witness ==
    /\ outerCall.op \in {"sign", "verify"}
    /\ outerCall.pc = ""
    /\ outerCall.rc = "SYSTEM_ERROR"
    /\ lastCall.op \in {"begin", "update", "finish"}
    /\ C29_KeymasterError(lastCall.rc)

\* C30: generate, import_key and get_pubkey return SYSTEM_ERROR when the
\* generateKey, importKey or exportKey they call ends with an error of the
\* keymaster, and the ResponseCode of that call otherwise.
C30_LegacyCreateResult ==
    [][outerCall'.op \in {"generate", "import_key", "get_pubkey"} =>
          /\ C29_KeymasterError(lastCall'.rc) => outerCall'.rc = "SYSTEM_ERROR"
          /\ lastCall'.rc \in ResponseCodes => outerCall'.rc = lastCall'.rc]_vars

(* ------------------------------------------------------------------ *)
(* Claims on the legacy generate, attestation and the error paths     *)
(* ------------------------------------------------------------------ *)
\* generate by a permitted caller for a key of the given type and size
C31_Generate(keyType, keySize) ==
    /\ lastCall'.op \in {"generate", "generateKey"}
    /\ \E f \in {{}, {"ENCRYPTED"}} :
          Generate(AppUid, UID_SELF, "k", keyType, keySize, f,
                   [LegacyEnv EXCEPT !.perm = {TRUE}])
    /\ lastCall'.rc \notin {"LOCKED", "UNINITIALIZED"} \/ lastCall'.op = "generateKey"

\* C31: generate takes an EC key of size -1 as one of 256 bits and rejects
\* every other size below 224 or above 521; it takes an RSA key of size -1
\* as one of 2048 bits and rejects every other size below 512 or above 4096;
\* it rejects every other key type. A rejection is SYSTEM_ERROR with no call
\* of the keymaster and nothing written; an accepted request calls
\* generateKey with the size, defaulted if it was -1, as TAG_KEY_SIZE.
C31_KeySizeRanges ==
    [][\A i \in GenerateInputs :
          C31_Generate(i[1], i[2]) =>
             LET lo == IF i[1] = "EC" THEN 224 ELSE 512
                 hi == IF i[1] = "EC" THEN 521 ELSE 4096
                 default == IF i[1] = "EC" THEN 256 ELSE 2048
                 accepted == /\ i[1] \in {"EC", "RSA"}
                             /\ i[2] = -1 \/ (lo <= i[2] /\ i[2] <= hi)
             IN
             IF accepted
             THEN /\ lastCall'.op = "generateKey"
                  /\ outerCall'.op = "generate"
                  /\ outerCall'.size = IF i[2] = -1 THEN default ELSE i[2]
             ELSE /\ lastCall'.op = "generate"
                  /\ lastCall'.rc = "SYSTEM_ERROR"
                  /\ lastCall'.trace = <<>>
                  /\ outerCall'.op = ""
                  /\ UNCHANGED <<blobs, chars>>]_vars

\* generate has called generateKey for an RSA key of the largest size
C31_Witness ==
    /\ outerCall.op = "generate"
    /\ outerCall.size = 4096
    /\ lastCall.op = "generateKey"
    /\ lastCall.rc = "NO_ERROR"

\* the number of calls of c in the trace t
C32_Count(t, c) == Cardinality(C21_At(t, c))

\* C32: when attestDeviceIds is let through to the keymaster and generateKey
\* succeeds, the transient key is passed to deleteKey once, after attestKey,
\* whatever attestKey and deleteKey answer; when generateKey fails there is
\* no key and no deleteKey. attestKey answers parameters with a device id
\* tag with INVALID_ARGUMENT and calls nothing.
C32_TransientKeyDeleted ==
    [][/\ \A p \in AttestParamSets, gen \in {"OK", "ERR", "HIDL"},
             att \in {"OK", "ERR", "HIDL"}, del \in {"OK", "ERR", "HIDL"} :
             /\ lastCall'.op = "attestDeviceIds"
             /\ "AUTH_TOKEN" \notin p /\ isDeviceIdAttestationRequested(p)
             /\ AttestDeviceIds(AID_SYSTEM, p, TRUE, TRUE, "NO_ERROR", gen, att, del)
             => /\ C32_Count(lastCall'.trace, "generateKey") = 1
                /\ C32_Count(lastCall'.trace, "deleteKey") = IF gen = "OK" THEN 1 ELSE 0
                /\ C32_Count(lastCall'.trace, "attestKey") = IF gen = "OK" THEN 1 ELSE 0
                /\ gen = "OK" => lastCall'.trace[Len(lastCall'.trace)] = "deleteKey"
                /\ gen = "OK" /\ att # "OK" => lastCall'.rc = KmCode(att)
       /\ \A p \in AttestParamSets, upd \in {"NO_ERROR", "ATTESTATION_APPLICATION_ID_MISSING"},
             att \in {"OK", "ERR", "HIDL"} :
             /\ lastCall'.op = "attestKey"
             /\ p \cap {"ATTESTATION_ID_SERIAL", "ATTESTATION_ID_IMEI",
                         "ATTESTATION_ID_BRAND", "ATTESTATION_ID_MEID"} # {}
             /\ AttestKey(AID_SYSTEM, "k", p, upd, att)
             => /\ lastCall'.rc = "INVALID_ARGUMENT"
                /\ lastCall'.trace = <<>>]_vars

\* attestDeviceIds has deleted the transient key although attestKey failed
C32_Witness ==
    /\ lastCall.op = "attestDeviceIds"
    /\ lastCall.rc = "UNKNOWN_ERROR"
    /\ lastCall.trace = <<"generateKey", "attestKey", "deleteKey">>

\* C33: when exportKey has upgraded the blob and exported it again, it
\* returns success only if the second export has produced the key material.
C33_RetriedExportResult ==
    [][/\ lastCall'.op = "exportKey"
       /\ C32_Count(lastCall'.trace, "exportKey") = 2
       /\ lastCall'.rc = "NO_ERROR"
       => lastCall'.exportData]_vars

\* C34: when sign or verify returns, with whatever result, the operation
\* doLegacySignVerify has begun is not registered in the OperationMap.
C34_SignLeavesNoOperation ==
    [][/\ outerCall.op \in {"sign", "verify"}
       /\ outerCall.pc # ""
       /\ outerCall'.op = outerCall.op
       /\ outerCall'.pc = ""
       => ~hasOperation(ops', IF outerCall.pc = "begin" THEN lastCall'.tok
                                                        ELSE outerCall.tok)]_vars

\* C35: when upgradeKeyBlob returns an error, because upgradeKey, del or put
\* failed, the blob of the key is the one that was there before the call.
C35_FailedUpgradeKeepsBlob ==
    [][/\ lastCall'.op \in {"exportKey", "getKeyCharacteristics", "begin"}
       /\ lastCall'.trace # <<>>
       /\ C32_Count(lastCall'.trace, "upgradeKey") = 1
       /\ lastCall'.trace[Len(lastCall'.trace)] \in {"upgradeKey", "del", "put"}
       => /\ ~isOk(lastCall'.rc)
          /\ blobs'[lastCall'.key] = blobs[lastCall'.key]]_vars

\* C36: a generateKey or importKey that fails leaves no key blob it has
\* written without a characteristics blob beside it.
C36_NoBlobWithoutCharacteristics ==
    [][/\ lastCall'.op \in {"generateKey", "importKey"}
       /\ ~isOk(lastCall'.rc)
       /\ blobs'[lastCall'.key] # blobs[lastCall'.key]
       /\ blobs'[lastCall'.key].present
       => chars'[lastCall'.key].present]_vars

\* C37: generateKey and importKey call the fallback keymaster only when the
\* primary keymaster has failed; when the primary keymaster made the key and
\* the key blob could not be written, the fallback is not called.
C37_FallbackOnlyAfterKeymasterFailure ==
    [][LET t == lastCall'.trace
           X == lastCall'.op
           F == IF X = "generateKey" THEN "fb.generateKey" ELSE "fb.importKey"
       IN
       X \in {"generateKey", "importKey"} =>
          \A j \in C21_At(t, F) : j > 1 /\ t[j - 1] = X]_vars

(* ------------------------------------------------------------------ *)
(* Claims on the life of an operation                                 *)
(* ------------------------------------------------------------------ *)
\* C38: lock, unlock, reset, onUserPasswordChanged, onUserAdded,
\* onUserRemoved, del, clear_uid, insert, generateKey, importKey and
\* addAuthToken leave the OperationMap as it is; an operation leaves the map
\* only in finish, abort, begin and binderDied; an update or a finish of a
\* registered operation succeeds when the user is not unlocked any more or
\* the key blob is gone.
C38_OperationMapFrame ==
    [][/\ lastCall'.op \in {"lock", "unlock", "reset", "onUserPasswordChanged", "onUserAdded",
                            "onUserRemoved", "del", "clear_uid", "insert", "generateKey",
                            "importKey", "addAuthToken"}
          => ops' = ops
       /\ (\E i \in 1..Len(ops) : ~hasOperation(ops', ops[i].token))
          => lastCall'.op \in {"finish", "abort", "begin", "binderDied"}
       /\ \A t \in 1..MaxLockOps :
             /\ hasOperation(ops, t)
             /\ userState # "NO_ERROR" \/ ~blobs[<<AID_SYSTEM, "k">>].present
             /\ lastCall'.op \in {"update", "finish"}
             /\ Update(t, {}, FrameEnv) \/ Finish(t, {}, FALSE, FrameEnv)
             => isOk(lastCall'.rc)]_vars

\* the operation was finished with success after the user was locked and
\* the key was deleted
C38_Witness ==
    /\ lastCall.op = "finish"
    /\ isOk(lastCall.rc)
    /\ lastCall.tok = 1
    /\ userState = "LOCKED"
    /\ ~blobs[<<AID_SYSTEM, "k">>].present

\* C39: an abort of a registered token, and a finish that has called the
\* keymaster, remove the operation from the OperationMap and complete its
\* handle in the AuthTokenTable, whatever the keymaster has answered.
C39_FinishAndAbortRemove ==
    [][\A t \in 1..MaxOps :
          /\ hasOperation(ops, t)
          /\ lastCall'.tok = t
          /\ \/ lastCall'.op = "abort"
             \/ lastCall'.op = "finish" /\ C32_Count(lastCall'.trace, "finish") = 1
          => /\ ~hasOperation(ops', t)
             /\ getOperationCount(ops') = getOperationCount(ops) - 1
             /\ authTable' = authTable \ {getOperation(ops, t).handle}
             /\ lastCall'.op = "abort" => lastCall'.aborted = <<getOperation(ops, t).handle>>]_vars

\* the keymaster has refused to abort the operation, and the operation is
\* gone from the map and its handle from the table, which keeps another token
C39_Witness ==
    /\ lastCall.op = "abort"
    /\ lastCall.rc = KmCode("ERR")
    /\ Len(lastCall.aborted) = 1
    /\ ~hasOperation(ops, lastCall.tok)
    /\ \A i \in 1..Len(lastCall.aborted) : lastCall.aborted[i] \notin authTable
    /\ authTable # {}

\* the value of the parameter with the tag, empty when there is none
C40_Value(params, tag) ==
    IF \E i \in 1..Len(params) : params[i].tag = tag
    THEN params[CHOOSE i \in 1..Len(params) : params[i].tag = tag].value
    ELSE <<>>

\* C40: getOperationCharacteristics passes the value of APPLICATION_ID as the
\* client id and the value of APPLICATION_DATA as the application data to
\* getKeyCharacteristics of the keymaster, each empty when it is absent.
C40_BindingPassedUnchanged ==
    [][\A p \in OperationParams :
          /\ lastCall'.op = "getOperationCharacteristics"
          /\ lastCall'.trace = <<"get", "getKeyCharacteristics">>
          /\ GetOperationCharacteristics(AID_SYSTEM, "k", p,
                                         [GoodEnv EXCEPT !.kmChar = {"OK", "ERR", "HIDL"}])
          => /\ lastCall'.clientId = C40_Value(p, "APPLICATION_ID")
             /\ lastCall'.appData = C40_Value(p, "APPLICATION_DATA")]_vars

====
